---- MODULE Spec2Model ----
(***************************************************************************)
(* Model of the event bus lab (lessons/lab_0001_event_bus):                *)
(*   - EventBus       (event_bus/sync_bus.py), specification Spec          *)
(*   - AsyncEventBus  (event_bus/async_bus.py), specification SpecAsync    *)
(*   - EventBus.subscribe called from two threads, specification           *)
(*     SpecThreads                                                         *)
(*   - a program that uses a bus of either class, specification SpecBuses  *)
(*   - both classes driven by the same calls, specification SpecPair       *)
(*   - two tasks that publish on one AsyncEventBus, SpecAsyncTwo           *)
(*   - the event data handed to the handlers, specification SpecPayload    *)
(* and of two objects of the other labs:                                   *)
(*   - SnowflakeConnection (lab_0005_snowflake/snowflake_lab/connection.py)*)
(*     called from two threads, SpecSnowflake and SpecSnowflakeFair        *)
(*   - ConfigManager (lab_0002_config_loader/config_loader/                *)
(*     config_manager.py), SpecConfig and SpecConfigUpdate                 *)
(* The registry self._subscribers is a dict of dicts.  The inner dicts are *)
(* objects that publish keeps a reference to while it iterates, so the     *)
(* model keeps a heap of dict objects and the registry maps an event name  *)
(* to a reference.  An inner dict is modelled as CPython lays it out: an   *)
(* array of entries in insertion order in which a deleted key leaves a     *)
(* hole, and a count of the slots that are still free.                     *)
(***************************************************************************)
EXTENDS Integers, Sequences, FiniteSets, TLC

\* ------------------------------------------------------------------ bounds
MaxIds == 3          \* subscribe calls in one run (uuid4 values drawn)
MaxHandlerOps == 2   \* bus calls one handler invocation makes
AMaxIds == 2         \* subscribe calls on the async bus in one run
MaxNaps == 1         \* times one async handler suspends before it ends

Events == {"e1", "e2"}
Handlers == {"hA", "hB"}
AHandlers == {"hA"}   \* async handlers: what one does is chosen per step
Publishers == {"p1"}  \* the tasks that await AsyncEventBus.publish, once each
Threads == {"t1", "t2"}  \* the threads that call EventBus.subscribe, once each

\* ------------------------------------------------------------ dict objects
\* A deleted entry of a dict (me_value == NULL).
Hole == [id |-> 0, h |-> "none"]

\* USABLE_FRACTION of CPython's dictobject: two thirds of the table.
USABLE_FRACTION(n) == (2 * n) \div 3

RECURSIVE PowerAbove(_, _)
PowerAbove(p, x) == IF p > x THEN p ELSE PowerAbove(2 * p, x)

\* calculate_log2_keysize: the table size for a resize asking for minsize.
KeySize(minsize) ==
    LET or8 == IF (minsize \div 8) % 2 = 1 THEN minsize ELSE minsize + 8
        m == or8 - 1
    IN  PowerAbove(8, IF m > 7 THEN m ELSE 7)

\* The dict that `self._subscribers[event] = {}` followed by the first store
\* allocates: a table of 8 slots.
NewDict == [entries |-> <<>>, usable |-> USABLE_FRACTION(8)]

\* The `{}` default of `self._subscribers.get(event, {})`: never stored into.
EmptyDict == [entries |-> <<>>, usable |-> 0]

Live(d) == {i \in 1..Len(d.entries) : d.entries[i] # Hole}

\* len(d): ma_used.
DictLen(d) == Cardinality(Live(d))

\* `key in d`
DictHas(d, id) == \E i \in Live(d) : d.entries[i].id = id

RECURSIVE Compact(_)
Compact(s) ==
    IF s = <<>> THEN <<>>
    ELSE IF Head(s) = Hole THEN Compact(Tail(s))
         ELSE <<Head(s)>> \o Compact(Tail(s))

\* list(d.keys()): the ids in insertion order.
DictKeys(d) == [i \in 1..Len(Compact(d.entries)) |-> Compact(d.entries)[i].id]

\* DictSet with the new entry put first instead of last.
DictSetFront(d, id, h) ==
    [entries |-> <<[id |-> id, h |-> h]>> \o d.entries, usable |-> d.usable - 1]

\* d[id] = h for a key that is not in d: when no slot is free the table is
\* resized first (which drops the holes), then the entry is appended.
DictSet(d, id, h) ==
    LET r == IF d.usable <= 0
             THEN [entries |-> Compact(d.entries),
                   usable |-> USABLE_FRACTION(KeySize(3 * DictLen(d))) - DictLen(d)]
             ELSE d
    IN  [entries |-> Append(r.entries, [id |-> id, h |-> h]),
         usable |-> r.usable - 1]

\* del d[id]: the entry becomes a hole; the free-slot count is not restored.
DictDel(d, id) ==
    [d EXCEPT !.entries = [i \in 1..Len(d.entries) |->
                             IF d.entries[i].id = id THEN Hole ELSE d.entries[i]]]

\* The ids of a set in ascending order: ids are issued in increasing order,
\* so this is the order of the subscribe calls.
RECURSIVE Ascending(_)
Ascending(S) ==
    IF S = {} THEN <<>>
    ELSE LET m == CHOOSE x \in S : \A y \in S : x <= y
         IN  <<m>> \o Ascending(S \ {m})

Range(s) == {s[i] : i \in 1..Len(s)}

\* A function with one key removed (del outer[key]).
Without(f, k) == [x \in (DOMAIN f) \ {k} |-> f[x]]

\* ------------------------------------------------------------- variables
VARIABLES
    bus,        \* EventBus._subscribers: [subs: event -> ref, heap: ref -> dict]
    nextId,     \* the next value uuid4() returns to the EventBus
    frame,      \* the activation of EventBus.publish in progress, if any
    ret,        \* what the last finished call returned or raised
    issued,     \* history: the ids subscribe returned, in the order of the calls
    active,     \* history: the <<id, event>> of the subscriptions not yet removed
    abus,       \* AsyncEventBus._subscribers, same shape as bus
    anextId,    \* the next value uuid4() returns to the AsyncEventBus
    aissued,    \* history: the ids AsyncEventBus.subscribe returned, in order
    pubs,       \* the AsyncEventBus.publish call of each publisher task
    tasks,      \* the handler tasks asyncio.gather created, in creation order
    ready,      \* the event loop's queue of callbacks (loop._ready)
    tbus,       \* the _subscribers of an EventBus shared by threads
    tbase,      \* count_subscribers() of that bus before the threads start
    thr,        \* each thread's activation of EventBus.subscribe
    objs,       \* the payload objects: reference -> content (0 is None)
    pcall,      \* a publish seen from its payload: what each handler received
    pool,       \* SnowflakeConnection._sessions: name -> session, in order
    sess,       \* the Snowpark sessions created so far
    lock,       \* SnowflakeConnection._lock: "free" or the thread holding it
    cthr,       \* each thread's call on the SnowflakeConnection
    cfg,        \* ConfigManager._config
    cres,       \* the last ConfigManager call: arguments, result, dict before
    pair,       \* an EventBus and an AsyncEventBus given the same calls
    pres        \* what the last call returned on each of the two

syncVars == <<bus, nextId, frame, ret, issued, active>>
asyncVars == <<abus, anextId, aissued, pubs, tasks, ready>>
threadVars == <<tbus, tbase, thr>>
payloadVars == <<objs, pcall>>
snowVars == <<pool, sess, lock, cthr>>
configVars == <<cfg, cres>>
pairVars == <<pair, pres>>
restVars == <<payloadVars, snowVars, configVars, pairVars>>
vars == <<bus, nextId, frame, ret, issued, active,
          abus, anextId, aissued, pubs, tasks, ready, tbus, tbase, thr,
          objs, pcall, pool, sess, lock, cthr, cfg, cres, pair, pres>>

\* The dict a reference denotes; reference 0 is the `{}` default of get().
Deref(b, ref) == IF ref = 0 THEN EmptyDict ELSE b.heap[ref]

\* Reference counting: a dict nothing refers to any more is freed.
Collect(b, roots) ==
    LET keep == ({b.subs[e] : e \in DOMAIN b.subs} \cup roots) \cap DOMAIN b.heap
    IN  [b EXCEPT !.heap = [r \in keep |-> b.heap[r]]]

\* ---------------------------------------------------- EventBus (sync_bus.py)
\* EventBus.__init__
EventBusInit == [subs |-> <<>>, heap |-> <<>>]

\* A subscribe that registers a handler once per event: a handler the event
\* already has is not stored again.
EventBus_subscribe_once(b, event, sub_id, handler) ==
    IF /\ event \in DOMAIN b.subs
       /\ \E i \in Live(b.heap[b.subs[event]]) :
             b.heap[b.subs[event]].entries[i].h = handler
    THEN b
    ELSE LET b1 == IF event \notin DOMAIN b.subs
                   THEN [subs |-> b.subs @@ (event :> sub_id),
                         heap |-> b.heap @@ (sub_id :> NewDict)]
                   ELSE b
         IN  [b1 EXCEPT !.heap[b1.subs[event]] = DictSet(@, sub_id, handler)]

\* EventBus.subscribe, lines 74-79; sub_id is the value uuid4() returned.
\* The new inner dict is named by the id of its first subscription.
EventBus_subscribe(b, event, sub_id, handler) ==
    LET b1 == IF event \notin DOMAIN b.subs
              THEN [subs |-> b.subs @@ (event :> sub_id),
                    heap |-> b.heap @@ (sub_id :> NewDict)]
              ELSE b
        ref == b1.subs[event]
    IN  [b1 EXCEPT !.heap[ref] = DictSet(@, sub_id, handler)]

\* An unsubscribe that drops the whole entry of the event it found the id in.
EventBus_unsubscribe_event(b, subscription_id) ==
    LET hit == {e \in DOMAIN b.subs : DictHas(b.heap[b.subs[e]], subscription_id)}
    IN  IF hit = {} THEN [bus |-> b, val |-> FALSE]
        ELSE [bus |-> [b EXCEPT !.subs = Without(b.subs, CHOOSE e \in hit : TRUE)],
              val |-> TRUE]

\* An unsubscribe that reports True whether or not it found the id.
EventBus_unsubscribe_true(b, subscription_id) ==
    LET hit == {e \in DOMAIN b.subs : DictHas(b.heap[b.subs[e]], subscription_id)}
    IN  IF hit = {} THEN [bus |-> b, val |-> TRUE]
        ELSE LET event == CHOOSE e \in hit : TRUE
                 ref == b.subs[event]
                 handlers == DictDel(b.heap[ref], subscription_id)
                 b1 == [b EXCEPT !.heap[ref] = handlers]
             IN  [bus |-> IF DictLen(handlers) = 0
                          THEN [b1 EXCEPT !.subs = Without(b1.subs, event)]
                          ELSE b1,
                  val |-> TRUE]

\* An unsubscribe without lines 120-121: the inner dict stays when it is empty.
EventBus_unsubscribe_keep(b, subscription_id) ==
    LET hit == {e \in DOMAIN b.subs : DictHas(b.heap[b.subs[e]], subscription_id)}
    IN  IF hit = {} THEN [bus |-> b, val |-> FALSE]
        ELSE LET event == CHOOSE e \in hit : TRUE
                 ref == b.subs[event]
             IN  [bus |-> [b EXCEPT !.heap[ref] = DictDel(@, subscription_id)],
                  val |-> TRUE]

\* EventBus.unsubscribe, lines 114-134: the bus afterwards and the result.
EventBus_unsubscribe(b, subscription_id) ==
    LET hit == {e \in DOMAIN b.subs : DictHas(b.heap[b.subs[e]], subscription_id)}
    IN  IF hit = {} THEN [bus |-> b, val |-> FALSE]
        ELSE LET event == CHOOSE e \in hit : TRUE
                 ref == b.subs[event]
                 handlers == DictDel(b.heap[ref], subscription_id)
                 b1 == [b EXCEPT !.heap[ref] = handlers]
             IN  [bus |-> IF DictLen(handlers) = 0
                          THEN [b1 EXCEPT !.subs = Without(b1.subs, event)]
                          ELSE b1,
                  val |-> TRUE]

\* A clear that empties every inner dict as well as the outer one.
EventBus_clear_deep(b) ==
    [subs |-> <<>>, heap |-> [r \in DOMAIN b.heap |-> [b.heap[r] EXCEPT !.entries = <<>>]]]

\* A clear that removes the entry of one event only.
EventBus_clear_one(b) ==
    IF DOMAIN b.subs = {} THEN b
    ELSE [b EXCEPT !.subs = Without(b.subs, CHOOSE e \in DOMAIN b.subs : TRUE)]

\* EventBus.clear, line 192: the outer dict is emptied, the inner dicts are
\* not touched.
EventBus_clear(b) == [b EXCEPT !.subs = <<>>]

\* EventBus.count_subscribers(event), line 226.
EventBus_count(b, event) ==
    IF event \in DOMAIN b.subs THEN DictLen(b.heap[b.subs[event]]) ELSE 0

RECURSIVE SumOver(_, _)
SumOver(f, S) ==
    IF S = {} THEN 0
    ELSE LET x == CHOOSE y \in S : TRUE IN f[x] + SumOver(f, S \ {x})

\* A total that counts the event names instead of their subscriptions.
EventBus_count_events(b) == Cardinality(DOMAIN b.subs)

\* EventBus.count_subscribers(), lines 228-230.
EventBus_count_all(b) ==
    SumOver([e \in DOMAIN b.subs |-> DictLen(b.heap[b.subs[e]])], DOMAIN b.subs)

\* The argument checks of subscribe (lines 67-69), publish (lines 165-166)
\* and unsubscribe (lines 109-112), for arguments of the right type: the
\* event name is not empty, the handler is callable, the id is not empty.
\* The empty id "" is written -1, the other ids are numbers from 0.
NotCallable == "not a function"

\* A check of the type alone: any string passes
AnyString(event) == TRUE

ValidEvent(event) == event # ""

callable(handler) == handler # NotCallable

ValidId(subscription_id) == subscription_id >= 0

\* An id made from the number of subscriptions the event has.
sub_id_from_count(b, event, n) == EventBus_count(b, event) + 1

\* Line 72: sub_id = str(uuid4()), the n-th value drawn in the run.  uuid4
\* values are taken to be all different.
new_sub_id(b, event, n) == n

\* A lookup that ignores the name: the handlers of whichever event there is.
get_any(b, event) ==
    IF DOMAIN b.subs = {} THEN 0
    ELSE b.subs[CHOOSE e \in DOMAIN b.subs : e # event \/ DOMAIN b.subs = {event}]

\* Line 169: self._subscribers.get(event, {}), as a reference: the inner
\* dict registered under exactly this name, or the `{}` default.
subscribers_get(b, event) == IF event \in DOMAIN b.subs THEN b.subs[event] ELSE 0

\* The number of events instead of the number of handlers.
CountEvents(b, handlers) == Cardinality(DOMAIN b.subs)

\* Line 170: handler_count = len(handlers).
HandlerCount(b, handlers) == DictLen(handlers)

\* ------------------------------------------- EventBus.publish, step by step
\* No publish in progress.  (After a publish has ended its record is kept,
\* with pc "idle", until the program makes its next call.)
Idle ==
    [pc |-> "idle", event |-> "", handlers |-> 0, handler_count |-> 0,
     di_used |-> 0, di_pos |-> 0, di_len |-> 0, cur |-> 0, nops |-> 0,
     invoked |-> <<>>, finished |-> <<>>, failed |-> 0, snap |-> <<>>,
     added |-> {}, removed |-> {}, cleared |-> FALSE]

\* iter(handlers.values()), line 173: the iterator remembers the size of the
\* dict (di_used), its position (di_pos) and how many values are left (len).
dictiter_new(d) == [di_used |-> DictLen(d), di_pos |-> 0, di_len |-> DictLen(d)]

\* next() on that iterator (CPython's dictiter_iternextvalue): a size that
\* differs from di_used is a RuntimeError; holes are skipped; a value found
\* when none is left to expect is a RuntimeError too.
dictiter_next(d, f) ==
    LET rest == {i \in Live(d) : i > f.di_pos}
    IN  IF f.di_used # DictLen(d) THEN [kind |-> "RuntimeError", pos |-> 0]
        ELSE IF rest = {} THEN [kind |-> "StopIteration", pos |-> 0]
        ELSE IF f.di_len = 0 THEN [kind |-> "RuntimeError", pos |-> 0]
        ELSE [kind |-> "value", pos |-> CHOOSE i \in rest : \A j \in rest : i <= j]

\* The ids subscribed under an event, in the order of their subscribe calls.
SubscribedTo(b, event) ==
    Ascending({id \in 1..MaxIds :
                 event \in DOMAIN b.subs /\ DictHas(b.heap[b.subs[event]], id)})

\* Who may call the bus: the program between publishes, or the handler that
\* is running (a handler makes at most MaxHandlerOps calls per invocation).
CanCall ==
    \/ frame.pc = "idle"
    \/ frame.pc = "handler" /\ frame.nops < MaxHandlerOps

Roots(f) == IF f.pc = "idle" THEN {} ELSE {f.handlers}

\* subscribe(event, handler), by the program or by the running handler.
\* A call of the program whose argument check fails, lines 67-69, 109-112,
\* 165-166: the AssertionError leaves the method before it has touched the
\* registry.  (Handlers are taken to call the bus with valid arguments.)
Rejected(op) ==
    /\ frame.pc = "idle"
    /\ ret' = [op |-> op, status |-> "AssertionError", val |-> 0]
    /\ frame' = Idle
    /\ UNCHANGED <<bus, nextId, issued, active>>

Subscribe(event, handler) ==
    /\ UNCHANGED <<asyncVars, threadVars, restVars>>
    /\ CanCall
    /\ IF ValidEvent(event) /\ callable(handler)
       THEN LET sub_id == new_sub_id(bus, event, nextId)
            IN  /\ nextId <= MaxIds
                /\ frame' = IF frame.pc = "handler"
                            THEN [frame EXCEPT !.nops = @ + 1,
                                    !.added = IF event = frame.event
                                              THEN @ \cup {sub_id} ELSE @]
                            ELSE Idle
                /\ bus' = Collect(EventBus_subscribe(bus, event, sub_id, handler),
                                  Roots(frame))
                /\ nextId' = nextId + 1
                /\ ret' = [op |-> "subscribe", status |-> "int", val |-> sub_id]
                /\ issued' = Append(issued, sub_id)
                /\ active' = active \cup {<<sub_id, event>>}
       ELSE Rejected("subscribe")

\* unsubscribe(subscription_id), by the program or by the running handler.
Unsubscribe(subscription_id) ==
    /\ UNCHANGED <<asyncVars, threadVars, restVars>>
    /\ CanCall
    /\ IF ValidId(subscription_id)
       THEN LET r == EventBus_unsubscribe(bus, subscription_id)
            IN  /\ bus' = Collect(r.bus, Roots(frame))
                /\ ret' = [op |-> "unsubscribe",
                           status |-> IF r.val THEN "True" ELSE "False", val |-> 0]
                /\ frame' = IF frame.pc = "handler"
                            THEN [frame EXCEPT !.nops = @ + 1,
                                    !.removed = IF r.val /\ subscription_id \in Range(frame.snap)
                                                THEN @ \cup {subscription_id} ELSE @]
                            ELSE Idle
                /\ active' = {s \in active : s[1] # subscription_id}
                /\ UNCHANGED <<nextId, issued>>
       ELSE Rejected("unsubscribe")

\* clear(), by the program or by the running handler.
Clear ==
    /\ UNCHANGED <<asyncVars, threadVars, restVars>>
    /\ CanCall
    /\ bus' = Collect(EventBus_clear(bus), Roots(frame))
    /\ ret' = [op |-> "clear", status |-> "None", val |-> 0]
    /\ frame' = IF frame.pc = "handler"
                THEN [frame EXCEPT !.nops = @ + 1, !.cleared = TRUE]
                ELSE Idle
    /\ active' = {}
    /\ UNCHANGED <<nextId, issued>>

\* count_subscribers(event) or, with event None, count_subscribers(), called
\* by the program.  Lines 224-233.
None == "None"

CountSubscribers(event) ==
    /\ UNCHANGED <<asyncVars, threadVars, restVars>>
    /\ frame.pc = "idle"
    /\ ret' = [op |-> "count_subscribers", status |-> "int",
               val |-> IF event = None THEN EventBus_count_all(bus)
                       ELSE EventBus_count(bus, event)]
    /\ frame' = Idle
    /\ UNCHANGED <<bus, nextId, issued, active>>

\* publish(event), lines 165-173 up to the first next() of the loop.
PublishStart(event) ==
    /\ UNCHANGED <<asyncVars, threadVars, restVars>>
    /\ frame.pc = "idle"
    /\ IF ValidEvent(event)
       THEN /\ LET ref == subscribers_get(bus, event)
                   d == Deref(bus, ref)
                   it == dictiter_new(d)
               IN  frame' = [Idle EXCEPT !.pc = "dispatch", !.event = event,
                               !.handlers = ref,
                               !.handler_count = HandlerCount(bus, d),
                               !.di_used = it.di_used, !.di_pos = it.di_pos,
                               !.di_len = it.di_len,
                               !.snap = SubscribedTo(bus, event)]
            /\ ret' = [op |-> "publish", status |-> "running", val |-> 0]
            /\ UNCHANGED <<bus, nextId, issued, active>>
       ELSE Rejected("publish")

\* Line 173-174: next() yields a handler and it is called.
Invoke ==
    /\ UNCHANGED <<asyncVars, threadVars, restVars>>
    /\ frame.pc = "dispatch"
    /\ LET d == Deref(bus, frame.handlers)
           n == dictiter_next(d, frame)
       IN  /\ n.kind = "value"
           /\ frame' = [frame EXCEPT !.pc = "handler", !.di_pos = n.pos,
                          !.di_len = @ - 1, !.cur = d.entries[n.pos].id,
                          !.nops = 0,
                          !.invoked = Append(@, d.entries[n.pos].id)]
    /\ UNCHANGED <<bus, nextId, ret, issued, active>>

\* The handler returns: back to the loop.
HandlerReturn ==
    /\ UNCHANGED <<asyncVars, threadVars, restVars>>
    /\ frame.pc = "handler"
    /\ frame' = [frame EXCEPT !.pc = "dispatch", !.finished = Append(@, frame.cur),
                   !.cur = 0]
    /\ UNCHANGED <<bus, nextId, ret, issued, active>>

\* A publish that caught the handler's exception and went on with the loop.
SwallowError(f) == [f EXCEPT !.pc = "dispatch", !.cur = 0]

\* Line 174 is in no try block: an exception of the handler leaves publish.
PropagateError(f) == [f EXCEPT !.pc = "idle", !.cur = 0]

\* A bus that unsubscribes the handler that raised.
DropFailing(b, f) == EventBus_unsubscribe(b, f.cur).bus

\* Lines 173-174 have no except or finally clause: when the handler raises,
\* publish is left without a further statement of the bus being run.
OnHandlerError(b, f) == b

\* The handler raises.
HandlerRaise ==
    /\ UNCHANGED <<asyncVars, threadVars, restVars>>
    /\ frame.pc = "handler"
    /\ frame' = PropagateError([frame EXCEPT !.failed = frame.cur])
    /\ bus' = Collect(OnHandlerError(bus, frame), Roots(frame'))
    /\ ret' = IF frame'.pc = "idle"
              THEN [op |-> "publish", status |-> "HandlerError", val |-> 0]
              ELSE ret
    /\ UNCHANGED <<nextId, issued, active>>

\* Line 173: next() raises StopIteration, the loop ends; line 178.
PublishReturn ==
    /\ UNCHANGED <<asyncVars, threadVars, restVars>>
    /\ frame.pc = "dispatch"
    /\ dictiter_next(Deref(bus, frame.handlers), frame).kind = "StopIteration"
    /\ frame' = [frame EXCEPT !.pc = "idle"]
    /\ bus' = Collect(bus, {})
    /\ ret' = [op |-> "publish", status |-> "int", val |-> frame.handler_count]
    /\ UNCHANGED <<nextId, issued, active>>

\* Line 173: next() raises RuntimeError (the dict changed during iteration).
PublishRuntimeError ==
    /\ UNCHANGED <<asyncVars, threadVars, restVars>>
    /\ frame.pc = "dispatch"
    /\ dictiter_next(Deref(bus, frame.handlers), frame).kind = "RuntimeError"
    /\ frame' = [frame EXCEPT !.pc = "idle"]
    /\ bus' = Collect(bus, {})
    /\ ret' = [op |-> "publish", status |-> "RuntimeError", val |-> 0]
    /\ UNCHANGED <<nextId, issued, active>>

SyncInit ==
    /\ bus = EventBusInit
    /\ nextId = 1
    /\ frame = Idle
    /\ ret = [op |-> "init", status |-> "None", val |-> 0]
    /\ issued = <<>>
    /\ active = {}

Next ==
    \/ \E e \in Events \cup {""}, h \in Handlers \cup {NotCallable} : Subscribe(e, h)
    \/ \E id \in -1..MaxIds : Unsubscribe(id)
    \/ Clear
    \/ \E e \in Events \cup {None} : CountSubscribers(e)
    \/ \E e \in Events \cup {""} : PublishStart(e)
    \/ Invoke
    \/ HandlerReturn
    \/ HandlerRaise
    \/ PublishReturn
    \/ PublishRuntimeError


\* ------------------------------------------- AsyncEventBus (async_bus.py)
\* AsyncEventBus.__init__
AsyncEventBusInit == [subs |-> <<>>, heap |-> <<>>]

\* AsyncEventBus.subscribe, lines 75-80.
AsyncEventBus_subscribe(b, event, sub_id, handler) ==
    LET b1 == IF event \notin DOMAIN b.subs
              THEN [subs |-> b.subs @@ (event :> sub_id),
                    heap |-> b.heap @@ (sub_id :> NewDict)]
              ELSE b
        ref == b1.subs[event]
    IN  [b1 EXCEPT !.heap[ref] = DictSet(@, sub_id, handler)]

\* An unsubscribe that leaves the event's entry in place when its last
\* subscription goes.
AsyncEventBus_unsubscribe_lazy(b, subscription_id) ==
    LET hit == {e \in DOMAIN b.subs : DictHas(b.heap[b.subs[e]], subscription_id)}
    IN  IF hit = {} THEN [bus |-> b, val |-> FALSE]
        ELSE LET event == CHOOSE e \in hit : TRUE
                 ref == b.subs[event]
             IN  [bus |-> [b EXCEPT !.heap[ref] = DictDel(@, subscription_id)],
                  val |-> TRUE]

\* AsyncEventBus.unsubscribe, lines 117-131.
AsyncEventBus_unsubscribe(b, subscription_id) ==
    LET hit == {e \in DOMAIN b.subs : DictHas(b.heap[b.subs[e]], subscription_id)}
    IN  IF hit = {} THEN [bus |-> b, val |-> FALSE]
        ELSE LET event == CHOOSE e \in hit : TRUE
                 ref == b.subs[event]
                 handlers == DictDel(b.heap[ref], subscription_id)
                 b1 == [b EXCEPT !.heap[ref] = handlers]
             IN  [bus |-> IF DictLen(handlers) = 0
                          THEN [b1 EXCEPT !.subs = Without(b1.subs, event)]
                          ELSE b1,
                  val |-> TRUE]

\* AsyncEventBus.clear, line 190.
AsyncEventBus_clear(b) == [b EXCEPT !.subs = <<>>]

\* AsyncEventBus.count_subscribers(event), line 226.
AsyncEventBus_count(b, event) ==
    IF event \in DOMAIN b.subs THEN DictLen(b.heap[b.subs[event]]) ELSE 0

\* A bus call made inside one step of a task: none, or one of the three
\* registry operations.  The bus and the id counter afterwards.
NoCall == [op |-> "none", e |-> "", h |-> "", id |-> 0]

Calls(nid) ==
    {NoCall, [op |-> "clear", e |-> "", h |-> "", id |-> 0]}
    \cup {[op |-> "subscribe", e |-> e, h |-> h, id |-> nid] :
            e \in IF nid <= AMaxIds THEN Events ELSE {}, h \in AHandlers}
    \cup {[op |-> "unsubscribe", e |-> "", h |-> "", id |-> i] : i \in 1..AMaxIds}

ApplyCall(b, c) ==
    CASE c.op = "subscribe" -> Collect(AsyncEventBus_subscribe(b, c.e, c.id, c.h), {})
      [] c.op = "unsubscribe" -> Collect(AsyncEventBus_unsubscribe(b, c.id).bus, {})
      [] c.op = "clear" -> Collect(AsyncEventBus_clear(b), {})
      [] OTHER -> b

\* Marks the publishes still suspended when the registry is changed.
Touch(ps, changed) ==
    [p \in DOMAIN ps |->
        IF ps[p].st = "waiting" /\ changed THEN [ps[p] EXCEPT !.changed = TRUE]
        ELSE ps[p]]

\* A registry call made by some other task, between two callbacks of the loop.
ACall ==
    /\ UNCHANGED <<syncVars, threadVars, restVars>>
    /\ \E c \in Calls(anextId) \ {NoCall} :
        /\ abus' = ApplyCall(abus, c)
        /\ anextId' = IF c.op = "subscribe" THEN anextId + 1 ELSE anextId
        /\ aissued' = IF c.op = "subscribe" THEN Append(aissued, c.id) ELSE aissued
        /\ pubs' = Touch(pubs, abus' # abus)
        /\ UNCHANGED <<tasks, ready>>

\* Coroutines gathered into the future of the first publish, whichever
\* publish made them.
CoroutinesOfFirst(d, p) ==
    LET ids == DictKeys(d)
    IN  [i \in 1..Len(ids) |-> [pub |-> "p1", id |-> ids[i], st |-> "created", naps |-> 0]]

\* Line 169: the coroutines of the handlers of d, in the order of d.values().
\* Calling an async handler creates the coroutine and runs none of its body.
Coroutines(d, p) ==
    LET ids == DictKeys(d)
    IN  [i \in 1..Len(ids) |-> [pub |-> p, id |-> ids[i], st |-> "created", naps |-> 0]]

\* Awaiting the coroutines one after another: only the first is started.
GatherSequential(q, first, n) ==
    IF n = 0 THEN q ELSE Append(q, [k |-> "step", t |-> first])

\* asyncio.gather, line 170: every coroutine becomes a task whose first step
\* is put on the loop's queue, in argument order.
Gather(q, first, n) == q \o [i \in 1..n |-> [k |-> "step", t |-> first + i - 1]]

\* A publish that awaits gather whatever the number of handlers, and is
\* resumed by the loop.
AlwaysAwaits(handler_count) == TRUE

\* Line 168: `if handler_count > 0:` guards the await of line 170, the only
\* suspension point of publish.
AwaitsGather(handler_count) == handler_count > 0

\* A publisher task that has not called publish yet.
NotCalled ==
    [st |-> "idle", event |-> "", handler_count |-> 0, first |-> 0, n |-> 0,
     snap |-> <<>>, nfinished |-> 0, outer |-> "pending", val |-> 0,
     changed |-> FALSE]

\* Task p runs `await bus.publish(event)`: lines 160-170 up to the suspension
\* of the await; with no subscriber, lines 172-174 run at once.
PublishCall(p, event) ==
    /\ UNCHANGED <<syncVars, threadVars, restVars>>
    /\ pubs[p].st = "idle"
    /\ LET ref == IF event \in DOMAIN abus.subs THEN abus.subs[event] ELSE 0
           handlers == Deref(abus, ref)
           handler_count == DictLen(handlers)
           cs == IF AwaitsGather(handler_count) THEN Coroutines(handlers, p) ELSE <<>>
       IN  /\ pubs' = [pubs EXCEPT ![p] =
                [NotCalled EXCEPT
                   !.st = IF AwaitsGather(handler_count) THEN "waiting" ELSE "returned",
                   !.event = event, !.handler_count = handler_count,
                   !.first = Len(tasks) + 1, !.n = Len(cs),
                   !.val = IF AwaitsGather(handler_count) THEN 0 ELSE handler_count,
                   !.snap = SubscribedTo(abus, event)]]
           /\ tasks' = tasks \o cs
           /\ ready' = Gather(ready, Len(tasks) + 1, Len(cs))
    /\ UNCHANGED <<abus, anextId, aissued>>

\* The loop runs the step of a handler task at the head of its queue: the
\* handler's code up to its next await (or its end), with the bus call it
\* makes on the way.
RunStep ==
    /\ UNCHANGED <<syncVars, threadVars, restVars>>
    /\ ready # <<>>
    /\ Head(ready).k = "step"
    /\ LET t == Head(ready).t IN
       \E c \in Calls(anextId), out \in {"yield", "sleep", "return", "raise"} :
        /\ out \in {"yield", "sleep"} => tasks[t].naps < MaxNaps
        /\ abus' = ApplyCall(abus, c)
        /\ anextId' = IF c.op = "subscribe" THEN anextId + 1 ELSE anextId
        /\ aissued' = IF c.op = "subscribe" THEN Append(aissued, c.id) ELSE aissued
        /\ pubs' = Touch(pubs, abus' # abus)
        /\ tasks' = [tasks EXCEPT ![t] =
              CASE out = "yield" -> [@ EXCEPT !.st = "ready", !.naps = @ + 1]
                [] out = "sleep" -> [@ EXCEPT !.st = "sleeping", !.naps = @ + 1]
                [] out = "return" -> [@ EXCEPT !.st = "done"]
                [] out = "raise" -> [@ EXCEPT !.st = "failed"]]
        /\ ready' =
              CASE out = "yield" -> Append(Tail(ready), [k |-> "step", t |-> t])
                [] out = "sleep" -> Tail(ready)
                [] OTHER -> Append(Tail(ready), [k |-> "done_cb", t |-> t])

\* The timer of a sleeping handler fires: its task is put back on the queue.
TimerFires(t) ==
    /\ UNCHANGED <<syncVars, threadVars, restVars>>
    /\ tasks[t].st = "sleeping"
    /\ tasks' = [tasks EXCEPT ![t].st = "ready"]
    /\ ready' = Append(ready, [k |-> "step", t |-> t])
    /\ UNCHANGED <<abus, anextId, aissued, pubs>>

\* A gather that takes the result of the first child to finish as its own.
gather_first_completed(pub, child) ==
    LET p1 == [pub EXCEPT !.nfinished = @ + 1]
    IN  IF pub.outer # "pending" THEN p1
        ELSE [p1 EXCEPT !.outer = IF child.st = "failed" THEN "exception" ELSE "result"]

\* A gather called with return_exceptions=True: exceptions become results.
gather_return_exceptions(pub, child) ==
    LET p1 == [pub EXCEPT !.nfinished = @ + 1]
    IN  IF pub.outer = "pending" /\ p1.nfinished = pub.n
        THEN [p1 EXCEPT !.outer = "result"] ELSE p1

\* gather's _done_callback for a finished child, with return_exceptions
\* False (line 170 passes no keyword): the first exception is set on the
\* outer future at once; the result is set when the last child has finished.
\* Setting either schedules the wakeup of the task awaiting the publish.
gather_done_callback(pub, child) ==
    LET p1 == [pub EXCEPT !.nfinished = @ + 1]
    IN  IF pub.outer # "pending" THEN p1
        ELSE IF child.st = "failed" THEN [p1 EXCEPT !.outer = "exception"]
        ELSE IF p1.nfinished = pub.n THEN [p1 EXCEPT !.outer = "result"]
        ELSE p1

RunDoneCallback ==
    /\ UNCHANGED <<syncVars, threadVars, restVars>>
    /\ ready # <<>>
    /\ Head(ready).k = "done_cb"
    /\ LET t == Head(ready).t
           p == tasks[t].pub
           np == gather_done_callback(pubs[p], tasks[t])
       IN  /\ pubs' = [pubs EXCEPT ![p] = np]
           /\ ready' = IF np.outer # pubs[p].outer
                       THEN Append(Tail(ready), [k |-> "wakeup", p |-> p])
                       ELSE Tail(ready)
    /\ UNCHANGED <<abus, anextId, aissued, tasks>>

\* A return of the size the handlers dict has when publish resumes.
ReturnLiveCount(pub, b) == AsyncEventBus_count(b, pub.event)

\* Line 174: publish returns the count it took at line 165.
ReturnValue(pub, b) == pub.handler_count

\* The awaiting task is resumed: the await of line 170 raises gather's
\* exception, or lines 172-174 return handler_count.
RunWakeup ==
    /\ UNCHANGED <<syncVars, threadVars, restVars>>
    /\ ready # <<>>
    /\ Head(ready).k = "wakeup"
    /\ LET p == Head(ready).p
       IN  pubs' = [pubs EXCEPT ![p] =
                IF @.outer = "exception" THEN [@ EXCEPT !.st = "raised"]
                ELSE [@ EXCEPT !.st = "returned", !.val = ReturnValue(pubs[p], abus)]]
    /\ ready' = Tail(ready)
    /\ UNCHANGED <<abus, anextId, aissued, tasks>>

AsyncInit ==
    /\ abus = AsyncEventBusInit
    /\ anextId = 1
    /\ aissued = <<>>
    /\ pubs = [p \in Publishers |-> NotCalled]
    /\ tasks = <<>>
    /\ ready = <<>>

LoopStep == RunStep \/ RunDoneCallback \/ RunWakeup

NextAsync ==
    \/ ACall
    \/ \E p \in Publishers, e \in Events : PublishCall(p, e)
    \/ RunStep
    \/ RunDoneCallback
    \/ RunWakeup
    \/ \E t \in 1..Len(tasks) : TimerFires(t)

\* Two tasks of one loop that each run `await bus.publish(event)`.
TwoPublishers == {"p1", "p2"}

AsyncInitTwo ==
    /\ abus = AsyncEventBusInit
    /\ anextId = 1
    /\ aissued = <<>>
    /\ pubs = [p \in TwoPublishers |-> NotCalled]
    /\ tasks = <<>>
    /\ ready = <<>>

\* Task p publishes the event the other task has published, if it has.
PublishSame(p, event) ==
    /\ \A q \in TwoPublishers : pubs[q].st # "idle" => pubs[q].event = event
    /\ PublishCall(p, event)

NextAsyncTwo ==
    \/ ACall
    \/ \E p \in TwoPublishers, e \in Events : PublishSame(p, e)
    \/ RunStep
    \/ RunDoneCallback
    \/ RunWakeup
    \/ \E t \in 1..Len(tasks) : TimerFires(t)

\* ------------------------------ EventBus.subscribe called from two threads
\* The class holds no lock (EventBus.__init__, lines 33-41, creates only the
\* dict), so the statements of two subscribe calls interleave wherever the
\* interpreter switches threads.  One action per statement; line 79 is two
\* operations, the lookup of the inner dict and the store into it.
NotStarted == [pc |-> "idle", event |-> "", sub_id |-> 0, ref |-> 0, status |-> "none"]

\* The value uuid4() returns in each thread; 1 is the id of the subscription
\* made before the threads start.
ThreadId(t) == IF t = "t1" THEN 2 ELSE 3

\* The main thread subscribes a handler to e1 before it starts the threads.
TSetup ==
    /\ UNCHANGED <<syncVars, asyncVars, restVars>>
    /\ \A t \in Threads : thr[t].pc = "idle"
    /\ tbase = 0
    /\ tbus' = EventBus_subscribe(tbus, "e1", 1, "hA")
    /\ tbase' = EventBus_count_all(tbus')
    /\ UNCHANGED thr

\* Lines 67-72: the call, its argument checks and sub_id = str(uuid4()).
TCall(t, event) ==
    /\ UNCHANGED <<syncVars, asyncVars, restVars>>
    /\ thr[t].pc = "idle"
    /\ thr' = [thr EXCEPT ![t] = [NotStarted EXCEPT !.pc = "L75", !.event = event,
                                    !.sub_id = ThreadId(t)]]
    /\ UNCHANGED <<tbus, tbase>>

\* Line 75: if event not in self._subscribers
TCheck(t) ==
    /\ UNCHANGED <<syncVars, asyncVars, restVars>>
    /\ thr[t].pc = "L75"
    /\ thr' = [thr EXCEPT ![t].pc =
                 IF thr[t].event \notin DOMAIN tbus.subs THEN "L76" ELSE "L79"]
    /\ UNCHANGED <<tbus, tbase>>

\* Line 76: self._subscribers[event] = {} (whatever the entry holds by now).
TCreate(t) ==
    /\ UNCHANGED <<syncVars, asyncVars, restVars>>
    /\ thr[t].pc = "L76"
    /\ tbus' = [subs |-> [e \in DOMAIN tbus.subs \cup {thr[t].event} |->
                            IF e = thr[t].event THEN thr[t].sub_id ELSE tbus.subs[e]],
                heap |-> tbus.heap @@ (thr[t].sub_id :> NewDict)]
    /\ thr' = [thr EXCEPT ![t].pc = "L79"]
    /\ UNCHANGED tbase

\* Line 79, first half: self._subscribers[event] is looked up.
TLoad(t) ==
    /\ UNCHANGED <<syncVars, asyncVars, restVars>>
    /\ thr[t].pc = "L79"
    /\ thr' = [thr EXCEPT ![t].pc = "L79store", ![t].ref = tbus.subs[thr[t].event]]
    /\ UNCHANGED <<tbus, tbase>>

\* Line 79, second half: the handler is stored into the dict that was found.
TStore(t) ==
    /\ UNCHANGED <<syncVars, asyncVars, restVars>>
    /\ thr[t].pc = "L79store"
    /\ tbus' = [tbus EXCEPT !.heap[thr[t].ref] = DictSet(@, thr[t].sub_id, "hA")]
    /\ thr' = [thr EXCEPT ![t].pc = "L81"]
    /\ UNCHANGED tbase

\* Line 81: assert sub_id in self._subscribers[event]
TAssertRegistered(t) ==
    /\ UNCHANGED <<syncVars, asyncVars, restVars>>
    /\ thr[t].pc = "L81"
    /\ thr' = [thr EXCEPT ![t] =
                 IF DictHas(tbus.heap[tbus.subs[thr[t].event]], thr[t].sub_id)
                 THEN [@ EXCEPT !.pc = "L82"]
                 ELSE [@ EXCEPT !.pc = "done", !.status = "AssertionError"]]
    /\ UNCHANGED <<tbus, tbase>>

\* Lines 82-84: assert self._subscribers[event][sub_id] is handler
TAssertMatch(t) ==
    /\ UNCHANGED <<syncVars, asyncVars, restVars>>
    /\ thr[t].pc = "L82"
    /\ thr' = [thr EXCEPT ![t] =
                 IF DictHas(tbus.heap[tbus.subs[thr[t].event]], thr[t].sub_id)
                 THEN [@ EXCEPT !.pc = "L86"]
                 ELSE [@ EXCEPT !.pc = "done", !.status = "KeyError"]]
    /\ UNCHANGED <<tbus, tbase>>

\* Line 86: return sub_id
TReturn(t) ==
    /\ UNCHANGED <<syncVars, asyncVars, restVars>>
    /\ thr[t].pc = "L86"
    /\ thr' = [thr EXCEPT ![t].pc = "done", ![t].status = "returned"]
    /\ UNCHANGED <<tbus, tbase>>

ThreadInit ==
    /\ tbus = EventBusInit
    /\ tbase = 0
    /\ thr = [t \in Threads |-> NotStarted]

NextThreads ==
    \/ TSetup
    \/ \E t \in Threads, e \in Events : TCall(t, e)
    \/ \E t \in Threads : TCheck(t)
    \/ \E t \in Threads : TCreate(t)
    \/ \E t \in Threads : TLoad(t)
    \/ \E t \in Threads : TStore(t)
    \/ \E t \in Threads : TAssertRegistered(t)
    \/ \E t \in Threads : TAssertMatch(t)
    \/ \E t \in Threads : TReturn(t)

\* --------------------------------- the payload of EventBus.publish
\* publish(event, payload=None) hands `payload` to every handler (line 174,
\* and line 169 of async_bus.py).  A payload is a reference to an object: a
\* mutable one (the dict of test_handler_can_modify_mutable_payload, here a
\* list of the marks handlers left in it) or None, reference 0.
MaxPayloadHandlers == 3   \* handlers subscribed to the published event

\* A bus that hands each handler a copy of the payload.
CopyPayload(o, ref) ==
    IF ref = 0 THEN [objs |-> o, ref |-> 0]
    ELSE LET new == Cardinality(DOMAIN o) + 1
         IN  [objs |-> o @@ (new :> o[ref]), ref |-> new]

\* Line 174: handler(event, payload) passes the reference it was given.
PassPayload(o, ref) == [objs |-> o, ref |-> ref]

\* No publish made yet.
NoPublish ==
    [pc |-> "idle", event |-> "", n |-> 0, payload |-> 0, i |-> 0,
     got |-> <<>>, mutated |-> {}, val |-> 0]

\* The publisher calls publish(event, payload), or publish(event), on a bus
\* where n handlers are subscribed to the event.  Lines 165-170.
PayloadPublish(event, n, given) ==
    /\ UNCHANGED <<syncVars, asyncVars, threadVars, snowVars, configVars, pairVars>>
    /\ pcall.pc = "idle"
    /\ objs' = IF given THEN (1 :> <<>>) ELSE <<>>
    /\ pcall' = [NoPublish EXCEPT !.pc = "loop", !.event = event, !.n = n,
                   !.payload = IF given THEN 1 ELSE 0]

\* Lines 173-174: the next handler is called with (event, payload); it
\* notes both arguments and what the payload holds.
PayloadInvoke ==
    /\ UNCHANGED <<syncVars, asyncVars, threadVars, snowVars, configVars, pairVars>>
    /\ pcall.pc = "loop"
    /\ pcall.i < pcall.n
    /\ LET a == PassPayload(objs, pcall.payload)
       IN  /\ objs' = a.objs
           /\ pcall' = [pcall EXCEPT !.pc = "handler", !.i = @ + 1,
                  !.got = Append(@, [event |-> pcall.event, payload |-> a.ref,
                                     seen |-> IF a.ref = 0 THEN <<>>
                                              ELSE a.objs[a.ref]])]

\* The running handler changes the payload it received (payload["modified"]
\* = True in the test): it leaves its mark in the object.
PayloadMutate ==
    /\ UNCHANGED <<syncVars, asyncVars, threadVars, snowVars, configVars, pairVars>>
    /\ pcall.pc = "handler"
    /\ pcall.i \notin pcall.mutated
    /\ LET r == pcall.got[pcall.i].payload
       IN  /\ r # 0
           /\ objs' = [objs EXCEPT ![r] = Append(@, pcall.i)]
    /\ pcall' = [pcall EXCEPT !.mutated = @ \cup {pcall.i}]

\* The running handler returns.
PayloadHandlerReturn ==
    /\ UNCHANGED <<syncVars, asyncVars, threadVars, snowVars, configVars, pairVars>>
    /\ pcall.pc = "handler"
    /\ pcall' = [pcall EXCEPT !.pc = "loop"]
    /\ UNCHANGED objs

\* Line 178: the loop is over, publish returns handler_count.
PayloadReturn ==
    /\ UNCHANGED <<syncVars, asyncVars, threadVars, snowVars, configVars, pairVars>>
    /\ pcall.pc = "loop"
    /\ pcall.i = pcall.n
    /\ pcall' = [pcall EXCEPT !.pc = "returned", !.val = pcall.n]
    /\ UNCHANGED objs

PayloadInit ==
    /\ objs = <<>>
    /\ pcall = NoPublish

NextPayload ==
    \/ \E e \in Events, n \in 0..MaxPayloadHandlers, given \in BOOLEAN :
          PayloadPublish(e, n, given)
    \/ PayloadInvoke
    \/ PayloadMutate
    \/ PayloadHandlerReturn
    \/ PayloadReturn

\* ------------------------------------------ SnowflakeConnection
\* snowflake_lab/connection.py: a pool of named Snowpark sessions behind
\* one threading.Lock.  The pool is a dict, kept here as the list of its
\* items in insertion order; a session is an object that the server may
\* invalidate at any time and that close() closes.
MaxSessions == 2   \* sessions Session.builder creates in one run
SessionNames == {"default", "etl"}

PoolHas(q, name) == \E i \in 1..Len(q) : q[i].name = name
PoolGet(q, name) == q[CHOOSE i \in 1..Len(q) : q[i].name = name].s
PoolDel(q, name) == SelectSeq(q, LAMBDA it : it.name # name)
PoolSet(q, name, s) ==
    IF PoolHas(q, name)
    THEN [i \in 1..Len(q) |-> IF q[i].name = name THEN [q[i] EXCEPT !.s = s]
                                                  ELSE q[i]]
    ELSE Append(q, [name |-> name, s |-> s])
PoolKeys(q) == [i \in 1..Len(q) |-> q[i].name]

\* A connection whose methods take no lock.
NoLock(l, t) == TRUE

\* `with self._lock:` on a threading.Lock (line 30): acquire blocks while
\* the lock is held, whoever holds it, the calling thread included.
CanAcquire(l, t) == l = "free"

\* Leaving the `with` block releases the lock.
Release(l) == "free"

\* session.sql("SELECT 1").collect() succeeds on a session that is still
\* valid and has not been closed.
ProbeOk(x) == x.valid /\ ~x.closed

NoCallYet ==
    [pc |-> "idle", op |-> "", fn |-> "", name |-> "", session |-> 0,
     keys |-> <<>>, status |-> "", val |-> 0]

\* Thread t calls get_session(name), close_session(name) or
\* close_all_sessions() (which is also what __exit__ does, line 217) and
\* reaches the `with self._lock:` of the method.
SCall(t, op, name) ==
    /\ UNCHANGED <<syncVars, asyncVars, threadVars, payloadVars, configVars, pairVars>>
    /\ cthr[t].pc = "idle"
    /\ cthr' = [cthr EXCEPT ![t] = [NoCallYet EXCEPT !.pc = "acquire",
                     !.op = op, !.fn = op, !.name = name]]
    /\ UNCHANGED <<pool, sess, lock>>

\* Lines 83, 120, 134: the thread takes the lock and enters the body.
SAcquire(t) ==
    /\ UNCHANGED <<syncVars, asyncVars, threadVars, payloadVars, configVars, pairVars>>
    /\ cthr[t].pc = "acquire"
    /\ CanAcquire(lock, t)
    /\ lock' = t
    /\ cthr' = [cthr EXCEPT ![t].pc =
                  CASE cthr[t].fn = "get_session" -> "g_check"
                    [] cthr[t].fn = "close_session" -> "c_check"
                    [] OTHER -> "a_keys"]
    /\ UNCHANGED <<pool, sess>>

\* Lines 84-85: if session_name in self._sessions: session = ...
GCheck(t) ==
    /\ UNCHANGED <<syncVars, asyncVars, threadVars, payloadVars, configVars, pairVars>>
    /\ cthr[t].pc = "g_check"
    /\ cthr' = [cthr EXCEPT ![t] =
                  IF PoolHas(pool, cthr[t].name)
                  THEN [@ EXCEPT !.pc = "g_probe",
                                 !.session = PoolGet(pool, cthr[t].name)]
                  ELSE [@ EXCEPT !.pc = "g_create"]]
    /\ UNCHANGED <<pool, sess, lock>>

\* Lines 87-95: the probe; a valid session is returned, an invalid one is
\* deleted from the pool (a KeyError if it is no longer there).
GProbe(t) ==
    /\ UNCHANGED <<syncVars, asyncVars, threadVars, payloadVars, configVars, pairVars>>
    /\ cthr[t].pc = "g_probe"
    /\ IF ProbeOk(sess[cthr[t].session])
       THEN /\ cthr' = [cthr EXCEPT ![t].pc = "idle", ![t].status = "Session",
                                     ![t].val = cthr[t].session]
            /\ lock' = Release(lock)
            /\ UNCHANGED <<pool, sess>>
       ELSE IF PoolHas(pool, cthr[t].name)
       THEN /\ pool' = PoolDel(pool, cthr[t].name)
            /\ sess' = [s \in DOMAIN sess |->
                          IF s = PoolGet(pool, cthr[t].name)
                          THEN [sess[s] EXCEPT !.removed = TRUE] ELSE sess[s]]
            /\ cthr' = [cthr EXCEPT ![t].pc = "g_create"]
            /\ UNCHANGED lock
       ELSE /\ cthr' = [cthr EXCEPT ![t].pc = "idle", ![t].status = "KeyError"]
            /\ lock' = Release(lock)
            /\ UNCHANGED <<pool, sess>>

\* Lines 98-100: Session.builder.configs(...).create() opens a session,
\* or fails and get_session raises SnowparkSQLException (lines 109-111).
GCreate(t) ==
    /\ UNCHANGED <<syncVars, asyncVars, threadVars, payloadVars, configVars, pairVars>>
    /\ cthr[t].pc = "g_create"
    /\ \/ /\ Len(sess) < MaxSessions
          /\ sess' = Append(sess, [name |-> cthr[t].name, valid |-> TRUE,
                                    closed |-> FALSE, removed |-> FALSE])
          /\ cthr' = [cthr EXCEPT ![t].pc = "g_store",
                                   ![t].session = Len(sess) + 1]
          /\ UNCHANGED lock
       \/ /\ cthr' = [cthr EXCEPT ![t].pc = "idle",
                                   ![t].status = "SnowparkSQLException"]
          /\ lock' = Release(lock)
          /\ UNCHANGED sess
    /\ UNCHANGED pool

\* Lines 102-107: self._sessions[session_name] = session; return session.
GStore(t) ==
    /\ UNCHANGED <<syncVars, asyncVars, threadVars, payloadVars, configVars, pairVars>>
    /\ cthr[t].pc = "g_store"
    /\ pool' = PoolSet(pool, cthr[t].name, cthr[t].session)
    /\ cthr' = [cthr EXCEPT ![t].pc = "idle", ![t].status = "Session",
                             ![t].val = cthr[t].session]
    /\ lock' = Release(lock)
    /\ UNCHANGED sess

\* Where close_session goes back to: its caller's loop or the thread's
\* own code.
CReturn(c) ==
    IF c.op = "close_all_sessions"
    THEN [c EXCEPT !.pc = "a_loop", !.fn = "close_all_sessions"]
    ELSE [c EXCEPT !.pc = "idle", !.status = "None"]

\* Line 121: if session_name in self._sessions.
CCheck(t) ==
    /\ UNCHANGED <<syncVars, asyncVars, threadVars, payloadVars, configVars, pairVars>>
    /\ cthr[t].pc = "c_check"
    /\ IF PoolHas(pool, cthr[t].name)
       THEN /\ cthr' = [cthr EXCEPT ![t].pc = "c_close"]
            /\ UNCHANGED lock
       ELSE /\ cthr' = [cthr EXCEPT ![t] = CReturn(@)]
            /\ lock' = Release(lock)
    /\ UNCHANGED <<pool, sess>>

\* Lines 122-128: self._sessions[session_name].close(), which closes the
\* session or raises (the error is logged and swallowed).
CClose(t) ==
    /\ UNCHANGED <<syncVars, asyncVars, threadVars, payloadVars, configVars, pairVars>>
    /\ cthr[t].pc = "c_close"
    /\ IF PoolHas(pool, cthr[t].name)
       THEN \/ sess' = [s \in DOMAIN sess |->
                          IF s = PoolGet(pool, cthr[t].name)
                          THEN [sess[s] EXCEPT !.closed = TRUE] ELSE sess[s]]
            \/ UNCHANGED sess
       ELSE UNCHANGED sess
    /\ cthr' = [cthr EXCEPT ![t].pc = "c_del"]
    /\ UNCHANGED <<pool, lock>>

\* Lines 129-130: finally: del self._sessions[session_name].
CDel(t) ==
    /\ UNCHANGED <<syncVars, asyncVars, threadVars, payloadVars, configVars, pairVars>>
    /\ cthr[t].pc = "c_del"
    /\ IF PoolHas(pool, cthr[t].name)
       THEN /\ pool' = PoolDel(pool, cthr[t].name)
            /\ sess' = [s \in DOMAIN sess |->
                          IF s = PoolGet(pool, cthr[t].name)
                          THEN [sess[s] EXCEPT !.removed = TRUE] ELSE sess[s]]
            /\ cthr' = [cthr EXCEPT ![t] = CReturn(@)]
       ELSE /\ cthr' = [cthr EXCEPT ![t].pc = "idle", ![t].status = "KeyError"]
            /\ UNCHANGED <<pool, sess>>
    /\ lock' = Release(lock)

\* Line 135: list(self._sessions.keys()).
AKeys(t) ==
    /\ UNCHANGED <<syncVars, asyncVars, threadVars, payloadVars, configVars, pairVars>>
    /\ cthr[t].pc = "a_keys"
    /\ cthr' = [cthr EXCEPT ![t].pc = "a_loop", ![t].keys = PoolKeys(pool)]
    /\ UNCHANGED <<pool, sess, lock>>

\* Lines 135-136: for session_name in ...: self.close_session(session_name)
\* -- the call reaches close_session's own `with self._lock:`; after the
\* last name the method leaves its `with` block and returns.
ALoop(t) ==
    /\ UNCHANGED <<syncVars, asyncVars, threadVars, payloadVars, configVars, pairVars>>
    /\ cthr[t].pc = "a_loop"
    /\ IF cthr[t].keys = <<>>
       THEN /\ cthr' = [cthr EXCEPT ![t].pc = "idle", ![t].status = "None"]
            /\ lock' = Release(lock)
       ELSE /\ cthr' = [cthr EXCEPT ![t].pc = "acquire",
                                     ![t].fn = "close_session",
                                     ![t].name = Head(cthr[t].keys),
                                     ![t].keys = Tail(cthr[t].keys)]
            /\ UNCHANGED lock
    /\ UNCHANGED <<pool, sess>>

\* The server drops a session: from now on its probe fails.
Expire(s) ==
    /\ UNCHANGED <<syncVars, asyncVars, threadVars, payloadVars, configVars, pairVars>>
    /\ s \in DOMAIN sess
    /\ sess[s].valid
    /\ sess' = [sess EXCEPT ![s].valid = FALSE]
    /\ UNCHANGED <<pool, lock, cthr>>

\* Lines 28-31: an empty pool and a free lock.
SnowflakeInit ==
    /\ pool = <<>>
    /\ sess = <<>>
    /\ lock = "free"
    /\ cthr = [t \in Threads |-> NoCallYet]

SnowStep(t) ==
    \/ SAcquire(t)
    \/ GCheck(t)
    \/ GProbe(t)
    \/ GCreate(t)
    \/ GStore(t)
    \/ CCheck(t)
    \/ CClose(t)
    \/ CDel(t)
    \/ AKeys(t)
    \/ ALoop(t)

NextSnowflake ==
    \/ \E t \in Threads, name \in SessionNames :
          \/ SCall(t, "get_session", name)
          \/ SCall(t, "close_session", name)
    \/ \E t \in Threads : SCall(t, "close_all_sessions", "")
    \/ \E t \in Threads : SnowStep(t)
    \/ \E s \in 1..MaxSessions : Expire(s)

\* ------------------------------------------------- ConfigManager
\* config_loader/config_manager.py: a nested dict read and written through
\* dot-notation keys.  A key is a string, kept as the list of its
\* characters; a value is None, an int or a dict from key segments to
\* values, kept with its type.
MaxScalar == 1    \* the ints a configuration holds are 1..MaxScalar
MaxKeyLen == 3    \* characters of a key passed to get, set, has
KeyChars == {"a", "b", "."}
Segments == {<<"a">>, <<"b">>}

NoneValue == [t |-> "None", v |-> 0, d |-> <<>>]
IntValue(n) == [t |-> "int", v |-> n, d |-> <<>>]
DictValue(f) == [t |-> "dict", v |-> 0, d |-> f]

Scalars == {NoneValue} \cup {IntValue(n) : n \in 1..MaxScalar}
DictsOver(V) == UNION {[K -> V] : K \in SUBSET Segments}
FlatDicts == DictsOver(Scalars)
FlatValues == Scalars \cup {DictValue(f) : f \in FlatDicts}
Configs == DictsOver(FlatValues)
ConfigKeys == UNION {[1..n -> KeyChars] : n \in 0..MaxKeyLen}

\* key.split("."): the segments between the dots, empty ones included.
RECURSIVE SplitFrom(_, _, _)
SplitFrom(chars, cur, acc) ==
    IF chars = <<>> THEN Append(acc, cur)
    ELSE IF Head(chars) = "."
    THEN SplitFrom(Tail(chars), <<>>, Append(acc, cur))
    ELSE SplitFrom(Tail(chars), Append(cur, Head(chars)), acc)

split(key) == SplitFrom(key, <<>>, <<>>)

\* Lines 127-129: for k in keys: value = value[k].  Indexing a dict with a
\* missing key raises KeyError, indexing None or an int raises TypeError.
RECURSIVE Walk(_, _)
Walk(value, keys) ==
    IF keys = <<>> THEN [status |-> "ok", value |-> value]
    ELSE IF value.t # "dict" THEN [status |-> "TypeError", value |-> NoneValue]
    ELSE IF Head(keys) \notin DOMAIN value.d
    THEN [status |-> "KeyError", value |-> NoneValue]
    ELSE Walk(value.d[Head(keys)], Tail(keys))

\* ConfigManager.get, lines 123-132.
ConfigManager_get(config, key, default) ==
    LET r == Walk(DictValue(config), split(key))
    IN  IF r.status = "ok" THEN r.value ELSE default

\* ConfigManager.has, line 166: return self.get(key) is not None.
ConfigManager_has(config, key) ==
    ConfigManager_get(config, key, NoneValue) # NoneValue

\* d[k] = v
Put(f, k, v) == [x \in DOMAIN f \cup {k} |-> IF x = k THEN v ELSE f[x]]

\* Lines 146-155: walk to the parent, creating {} for a missing segment,
\* then current[keys[-1]] = value.  `k not in current` and the item
\* assignment raise TypeError on None and on an int.
RECURSIVE SetIn(_, _, _)
SetIn(current, keys, value) ==
    IF current.t # "dict" THEN [status |-> "TypeError", value |-> current]
    ELSE IF Len(keys) = 1
    THEN [status |-> "ok", value |-> DictValue(Put(current.d, keys[1], value))]
    ELSE LET k == Head(keys)
             child == IF k \in DOMAIN current.d THEN current.d[k]
                                                ELSE DictValue(<<>>)
             r == SetIn(child, Tail(keys), value)
         IN  IF r.status = "ok"
             THEN [status |-> "ok", value |-> DictValue(Put(current.d, k, r.value))]
             ELSE [status |-> r.status, value |-> current]

\* ConfigManager.set, lines 146-155.
ConfigManager_set(config, key, value) ==
    LET r == SetIn(DictValue(config), split(key), value)
    IN  [status |-> r.status, config |-> r.value.d]

\* dict.update: every key of update_dict replaces the one of base_dict.
shallow_update(base_dict, update_dict) ==
    [key \in DOMAIN base_dict \cup DOMAIN update_dict |->
        IF key \in DOMAIN update_dict THEN update_dict[key] ELSE base_dict[key]]

\* ConfigManager._deep_update, lines 225-233.
RECURSIVE deep_update(_, _)
deep_update(base_dict, update_dict) ==
    [key \in DOMAIN base_dict \cup DOMAIN update_dict |->
        IF key \notin DOMAIN update_dict THEN base_dict[key]
        ELSE IF /\ key \in DOMAIN base_dict
                /\ base_dict[key].t = "dict"
                /\ update_dict[key].t = "dict"
        THEN DictValue(deep_update(base_dict[key].d, update_dict[key].d))
        ELSE update_dict[key]]

NoConfigCall ==
    [op |-> "init", key |-> <<>>, arg |-> NoneValue, status |-> "None",
     value |-> NoneValue, flag |-> FALSE, before |-> <<>>]

\* manager.set(key, value)
CfgSet(key, value) ==
    /\ UNCHANGED <<syncVars, asyncVars, threadVars, payloadVars, snowVars, pairVars>>
    /\ cres.op = "init"
    /\ LET r == ConfigManager_set(cfg, key, value)
       IN  /\ cfg' = r.config
           /\ cres' = [NoConfigCall EXCEPT !.op = "set", !.key = key,
                          !.arg = value, !.status = r.status, !.before = cfg]

\* manager.get(key, default)
CfgGet(key, default) ==
    /\ UNCHANGED <<syncVars, asyncVars, threadVars, payloadVars, snowVars, pairVars>>
    /\ cres.op = "init"
    /\ cres' = [NoConfigCall EXCEPT !.op = "get", !.key = key,
                   !.arg = default, !.before = cfg,
                   !.value = ConfigManager_get(cfg, key, default)]
    /\ UNCHANGED cfg

\* manager.has(key)
CfgHas(key) ==
    /\ UNCHANGED <<syncVars, asyncVars, threadVars, payloadVars, snowVars, pairVars>>
    /\ cres.op = "init"
    /\ cres' = [NoConfigCall EXCEPT !.op = "has", !.key = key,
                   !.before = cfg, !.flag = ConfigManager_has(cfg, key)]
    /\ UNCHANGED cfg

\* manager.update(other), lines 209-214, other a dict or the to_dict() of
\* another ConfigManager.
CfgUpdate(other) ==
    /\ UNCHANGED <<syncVars, asyncVars, threadVars, payloadVars, snowVars, pairVars>>
    /\ cres.op = "init"
    /\ cfg' = deep_update(cfg, other)
    /\ cres' = [NoConfigCall EXCEPT !.op = "update", !.arg = DictValue(other),
                   !.before = cfg]

\* ConfigManager(config_data), lines 37-38.
ConfigInit ==
    /\ cfg \in Configs
    /\ cres = NoConfigCall

\* The values handed to set: None, an int, a dict.
SetValues == Scalars \cup {DictValue(<<>>)}

NextConfig ==
    \/ \E key \in ConfigKeys, value \in SetValues : CfgSet(key, value)
    \/ \E key \in ConfigKeys, default \in Scalars : CfgGet(key, default)
    \/ \E key \in ConfigKeys : CfgHas(key)

NextConfigUpdate == \E other \in Configs : CfgUpdate(other)

\* ------------------------- the registry calls of the two bus classes
\* One program drives an EventBus and an AsyncEventBus with the same
\* calls.  Each bus draws its own ids from uuid4: the n-th id of the
\* EventBus is written n, the n-th id of the AsyncEventBus Rename(n).
MaxPairIds == 3   \* subscriptions made on each bus

Rename(id) == id + MaxPairIds

\* The id argument of the same call on the other bus: "" stays "".
RenameArg(id) == IF id < 0 THEN id ELSE Rename(id)

\* async_bus.py lines 68-70 and 112-115, for arguments of the right type.
AsyncValidEvent(event) == event # ""

async_callable(handler) == handler # NotCallable

AsyncValidId(subscription_id) == subscription_id >= 0

\* AsyncEventBus.count_subscribers(), lines 228-230.
AsyncEventBus_count_all(b) ==
    SumOver([e \in DOMAIN b.subs |-> DictLen(b.heap[b.subs[e]])], DOMAIN b.subs)

Raised(b) == [bus |-> b, status |-> "AssertionError", val |-> 0]

\* A registry method of EventBus, called from outside a publish, from its
\* argument check to its return: the bus afterwards and what the caller
\* gets.  c.id is the value uuid4 gives (subscribe) or the argument
\* (unsubscribe).
EventBus_call(b, c) ==
    CASE c.op = "subscribe" ->
           IF ValidEvent(c.e) /\ callable(c.h)
           THEN [bus |-> Collect(EventBus_subscribe(b, c.e, c.id, c.h), {}),
                 status |-> "id", val |-> c.id]
           ELSE Raised(b)
      [] c.op = "unsubscribe" ->
           IF ValidId(c.id)
           THEN LET r == EventBus_unsubscribe(b, c.id)
                IN  [bus |-> Collect(r.bus, {}),
                     status |-> IF r.val THEN "True" ELSE "False", val |-> 0]
           ELSE Raised(b)
      [] c.op = "clear" ->
           [bus |-> Collect(EventBus_clear(b), {}), status |-> "None", val |-> 0]
      [] OTHER ->
           [bus |-> b, status |-> "int",
            val |-> IF c.e = None THEN EventBus_count_all(b)
                    ELSE EventBus_count(b, c.e)]

\* The same for AsyncEventBus.
AsyncEventBus_call(b, c) ==
    CASE c.op = "subscribe" ->
           IF AsyncValidEvent(c.e) /\ async_callable(c.h)
           THEN [bus |-> Collect(AsyncEventBus_subscribe(b, c.e, c.id, c.h), {}),
                 status |-> "id", val |-> c.id]
           ELSE Raised(b)
      [] c.op = "unsubscribe" ->
           IF AsyncValidId(c.id)
           THEN LET r == AsyncEventBus_unsubscribe(b, c.id)
                IN  [bus |-> Collect(r.bus, {}),
                     status |-> IF r.val THEN "True" ELSE "False", val |-> 0]
           ELSE Raised(b)
      [] c.op = "clear" ->
           [bus |-> Collect(AsyncEventBus_clear(b), {}), status |-> "None", val |-> 0]
      [] OTHER ->
           [bus |-> b, status |-> "int",
            val |-> IF c.e = None THEN AsyncEventBus_count_all(b)
                    ELSE AsyncEventBus_count(b, c.e)]

NoResult == [op |-> "init", status |-> "None", val |-> 0]

\* The call c made on both buses, with id and aid the ids of the two.
Both(c, id, aid) ==
    LET rs == EventBus_call(pair.s, [c EXCEPT !.id = id])
        ra == AsyncEventBus_call(pair.a, [c EXCEPT !.id = aid])
    IN  /\ pair' = [s |-> rs.bus, a |-> ra.bus,
                    n |-> IF c.op = "subscribe" /\ rs.status = "id"
                          THEN pair.n + 1 ELSE pair.n]
        /\ pres' = [s |-> [op |-> c.op, status |-> rs.status, val |-> rs.val],
                    a |-> [op |-> c.op, status |-> ra.status, val |-> ra.val]]

\* subscribe(event, handler) on both.
PairSubscribe(event, handler) ==
    /\ UNCHANGED <<syncVars, asyncVars, threadVars, payloadVars, snowVars, configVars>>
    /\ pair.n < MaxPairIds
    /\ Both([op |-> "subscribe", e |-> event, h |-> handler, id |-> 0],
            pair.n + 1, Rename(pair.n + 1))

\* unsubscribe on both, each with its own id of the same subscription.
PairUnsubscribe(id) ==
    /\ UNCHANGED <<syncVars, asyncVars, threadVars, payloadVars, snowVars, configVars>>
    /\ Both([op |-> "unsubscribe", e |-> "", h |-> "", id |-> 0],
            id, RenameArg(id))

\* clear() on both.
PairClear ==
    /\ UNCHANGED <<syncVars, asyncVars, threadVars, payloadVars, snowVars, configVars>>
    /\ Both([op |-> "clear", e |-> "", h |-> "", id |-> 0], 0, 0)

\* count_subscribers(event) or count_subscribers() on both.
PairCount(event) ==
    /\ UNCHANGED <<syncVars, asyncVars, threadVars, payloadVars, snowVars, configVars>>
    /\ Both([op |-> "count_subscribers", e |-> event, h |-> "", id |-> 0], 0, 0)

\* EventBus() and AsyncEventBus().
PairInit ==
    /\ pair = [s |-> EventBusInit, a |-> AsyncEventBusInit, n |-> 0]
    /\ pres = [s |-> NoResult, a |-> NoResult]

NextPair ==
    \/ \E e \in Events \cup {""}, h \in Handlers \cup {NotCallable} :
          PairSubscribe(e, h)
    \/ \E id \in -1..MaxPairIds : PairUnsubscribe(id)
    \/ PairClear
    \/ \E e \in Events \cup {None} : PairCount(e)

\* ------------------------------------------------------- specifications
\* Each specification is a program that uses one of the objects modelled
\* here; the variables of the objects it does not have hold nothing.
NoSync ==
    /\ bus = <<>> /\ nextId = 0 /\ frame = <<>> /\ ret = <<>>
    /\ issued = <<>> /\ active = {}

NoAsync ==
    /\ abus = <<>> /\ anextId = 0 /\ aissued = <<>>
    /\ pubs = <<>> /\ tasks = <<>> /\ ready = <<>>

NoThreads == tbus = <<>> /\ tbase = 0 /\ thr = <<>>

NoPayload == objs = <<>> /\ pcall = <<>>

NoSnowflake == pool = <<>> /\ sess = <<>> /\ lock = "" /\ cthr = <<>>

NoConfig == cfg = <<>> /\ cres = <<>>

NoPair == pair = <<>> /\ pres = <<>>

NoLabs == NoPayload /\ NoSnowflake /\ NoConfig /\ NoPair

NoBuses == NoSync /\ NoAsync /\ NoThreads

Init == SyncInit /\ AsyncInit /\ ThreadInit /\ NoLabs

Spec == Init /\ [][Next]_vars

SpecAsync == Init /\ [][NextAsync]_vars

SpecThreads == Init /\ [][NextThreads]_vars

InitPayload ==
    /\ NoBuses /\ PayloadInit /\ NoSnowflake /\ NoConfig /\ NoPair

SpecPayload == InitPayload /\ [][NextPayload]_vars

InitPair ==
    /\ NoBuses /\ NoPayload /\ NoSnowflake /\ NoConfig /\ PairInit

SpecPair == InitPair /\ [][NextPair]_vars

InitTwo ==
    /\ NoSync /\ AsyncInitTwo /\ NoThreads /\ NoLabs

SpecAsyncTwo == InitTwo /\ [][NextAsyncTwo]_vars

InitSnowflake ==
    /\ NoBuses /\ NoPayload /\ SnowflakeInit /\ NoConfig /\ NoPair

SpecSnowflake == InitSnowflake /\ [][NextSnowflake]_vars

\* A ConfigManager built on any configuration, then one get, set or has.
InitConfig ==
    /\ NoBuses /\ NoPayload /\ NoSnowflake /\ ConfigInit /\ NoPair

SpecConfig == InitConfig /\ [][NextConfig]_vars

\* A ConfigManager built on any configuration, then one update.
SpecConfigUpdate == InitConfig /\ [][NextConfigUpdate]_vars

\* A thread that can take a step of its call again and again eventually
\* takes one: no thread is starved of the lock.
SpecSnowflakeFair ==
    SpecSnowflake /\ \A t \in Threads : SF_vars(SnowStep(t))

\* A program that owns one bus of either class: it makes its calls on an
\* EventBus or on an AsyncEventBus, and the other bus stays as constructed.
NextBuses ==
    \/ AsyncInit /\ Next
    \/ SyncInit /\ NextAsync

SpecBuses == Init /\ [][NextBuses]_vars

\* The loop runs the callbacks on its queue and fires the timers that are due.
MaxTasks == AMaxIds * Cardinality(Publishers)

SpecAsyncFair ==
    /\ SpecAsync
    /\ WF_vars(LoopStep)
    /\ \A t \in 1..MaxTasks : WF_vars(t <= Len(tasks) /\ TimerFires(t))

\* ------------------------------------------------------ claims, EventBus
\* The publish call that just ended (nothing was called since).
PublishEnded == frame.pc = "idle" /\ ret.op = "publish"

Front(q) == SubSeq(q, 1, Len(q) - 1)

\* C2: when a handler unsubscribes a subscription of the event being
\* published, that publish still invokes every handler subscribed at its
\* start, in registration order, and returns their count.
C2_UnsubscribeDuringPublish ==
    (PublishEnded /\ frame.removed # {} /\ frame.added = {} /\ ~frame.cleared
       /\ frame.failed = 0)
    => (ret.status = "int" /\ ret.val = Len(frame.snap)
          /\ frame.invoked = frame.snap)

\* C3: a handler subscribed to the event by one of the handlers being
\* dispatched is not invoked by that publish, which completes normally and
\* returns the number of handlers subscribed at its start.
C3_SubscribeDuringPublish ==
    (PublishEnded /\ frame.added # {} /\ frame.removed = {} /\ ~frame.cleared
       /\ frame.failed = 0)
    => (ret.status = "int" /\ ret.val = Len(frame.snap)
          /\ frame.invoked = frame.snap)

\* C5: once a handler of a publish has raised, the publish is over with the
\* handler's error and without a count; the handlers before it have run to
\* their end, it is the last one invoked, and (the handlers having left the
\* subscriptions of the event alone) the invoked ones are the first k in
\* registration order.
C5_SyncFailFast ==
    frame.failed # 0 =>
        /\ frame.pc = "idle"
        /\ frame.invoked # <<>>
        /\ frame.invoked[Len(frame.invoked)] = frame.failed
        /\ frame.finished = Front(frame.invoked)
        /\ ret.op = "publish" => ret.status = "HandlerError"
        /\ (frame.added = {} /\ frame.removed = {})
              => frame.invoked = SubSeq(frame.snap, 1, Len(frame.invoked))

\* C5 witness: the second of three handlers raised.
C5_Witness ==
    /\ PublishEnded /\ ret.status = "HandlerError"
    /\ Len(frame.snap) = 3 /\ Len(frame.invoked) = 2
    /\ frame.finished = <<frame.snap[1]>>
    /\ frame.failed = frame.snap[2]

Cohort(p) == pubs[p].first .. (pubs[p].first + pubs[p].n - 1)

CohortIds(p) == [i \in 1..pubs[p].n |-> tasks[pubs[p].first + i - 1].id]

Finished(t) == tasks[t].st \in {"done", "failed"}

\* C1: a publish raises to its caller only when every handler of its cohort
\* has finished.
C1_RaisesAfterCohortFinished ==
    \A p \in Publishers :
        pubs[p].st = "raised" => \A t \in Cohort(p) : Finished(t)

\* C4: the cohort of a publish is the handlers subscribed to the event when
\* it was called, whatever the registry becomes while it is suspended: they
\* all have a task, nothing else has, all have started when the call ends,
\* and a call that returns returns their number.
C4_AsyncCohortFixed ==
    \A p \in Publishers :
        pubs[p].st # "idle" =>
            /\ CohortIds(p) = pubs[p].snap
            /\ pubs[p].st \in {"returned", "raised"} =>
                  \A t \in Cohort(p) : tasks[t].st # "created"
            /\ pubs[p].st = "returned" => pubs[p].val = Len(pubs[p].snap)

\* C4 witness: a publish of two handlers returned after the subscriptions of
\* its event had changed under it.
C4_Witness ==
    \E p \in Publishers :
        /\ pubs[p].st = "returned" /\ pubs[p].changed /\ pubs[p].n = 2
        /\ SubscribedTo(abus, pubs[p].event) # pubs[p].snap

\* C6 (safety): a publish that raised had started every handler of its
\* cohort, and a publish never returns a count when a handler failed.
C6_Safety ==
    \A p \in Publishers :
        /\ pubs[p].st = "raised" => \A t \in Cohort(p) : tasks[t].st # "created"
        /\ pubs[p].st = "returned" => \A t \in Cohort(p) : tasks[t].st # "failed"

\* C6: when a handler of the cohort fails, every handler is started and the
\* publish never returns a count (C6_Safety); and every publish that
\* suspended is eventually over with every handler task of its cohort run to
\* its end (the publish cancels none), so that a publish with a failed
\* handler eventually raises.
C6_AsyncFailure ==
    /\ []C6_Safety
    /\ \A p \in Publishers :
          (pubs[p].st = "waiting") ~>
             (/\ pubs[p].st \in {"returned", "raised"}
              /\ \A t \in Cohort(p) : Finished(t))

\* C6 witness: the publish raised, one handler failed, the other completed
\* after suspending.
C6_Witness ==
    \E p \in Publishers :
        /\ pubs[p].st = "raised" /\ pubs[p].n = 2
        /\ \E t, u \in Cohort(p) :
              /\ tasks[t].st = "failed"
              /\ tasks[u].st = "done" /\ tasks[u].naps = 1

\* C8: a handler that suspended after starting finishes only after every
\* handler of its cohort has started.
C8_AllStartBeforeAnyFinishes ==
    \A p \in Publishers : \A t \in Cohort(p) :
        (Finished(t) /\ tasks[t].naps >= 1) =>
            \A u \in Cohort(p) : tasks[u].st # "created"

\* C8 witness: of two handlers the first has finished while the second,
\* started before that, is still suspended.
C8_Witness ==
    \E p \in Publishers :
        /\ pubs[p].n = 2
        /\ tasks[pubs[p].first].st = "done" /\ tasks[pubs[p].first].naps = 1
        /\ tasks[pubs[p].first + 1].st \in {"ready", "sleeping"}

\* C9: a publish that has returned its count has every handler of its cohort
\* completed.
C9_ReturnsAfterAllComplete ==
    \A p \in Publishers :
        pubs[p].st = "returned" => \A t \in Cohort(p) : tasks[t].st = "done"

\* C9 witness: a publish of two handlers, one of which suspended, returned 2.
C9_Witness ==
    \E p \in Publishers :
        /\ pubs[p].st = "returned" /\ pubs[p].val = 2
        /\ \E t \in Cohort(p) : tasks[t].naps = 1

\* ------------------------------------------- claims, EventBus and threads
\* C10: when the threads' subscribe calls are over, each has returned its id,
\* count_subscribers() has grown by one per call, and each id unsubscribes
\* with result true.
C10_ConcurrentSubscribe ==
    (\A t \in Threads : thr[t].pc = "done") =>
        /\ \A t \in Threads :
              /\ thr[t].status = "returned"
              /\ EventBus_unsubscribe(tbus, thr[t].sub_id).val
        /\ EventBus_count_all(tbus) = tbase + Cardinality(Threads)

\* ------------------------------------------ claims, either bus
\* Sequence q holds no value twice.
NoRepeats(q) == \A i, j \in 1..Len(q) : q[i] = q[j] => i = j

\* The handlers of the publish in progress have left the subscriptions of
\* its event as they were when it began.
Undisturbed == frame.added = {} /\ frame.removed = {} /\ ~frame.cleared

\* C11: a publish never invokes a subscription twice.  While the handlers
\* leave the subscriptions of the published event alone, each handler it
\* invokes is registered under exactly that event name and no other, and a
\* publish that returns has invoked every subscription of the event once
\* and returns their number.  On the AsyncEventBus a publish that returns
\* has run one task to its end for each subscription of the event and
\* returns their number.
C11_PublishInvokesEachOnce ==
    /\ NoRepeats(frame.invoked)
    /\ (frame.pc = "handler" /\ frame.nops = 0 /\ Undisturbed) =>
          \A e \in Events : (<<frame.cur, e>> \in active) = (e = frame.event)
    /\ (PublishEnded /\ ret.status = "int" /\ Undisturbed) =>
          /\ Range(frame.invoked) = Range(frame.snap)
          /\ frame.finished = frame.invoked
          /\ ret.val = Len(frame.invoked)
    /\ \A p \in Publishers :
          pubs[p].st = "returned" =>
            /\ CohortIds(p) = pubs[p].snap
            /\ NoRepeats(CohortIds(p))
            /\ \A t \in Cohort(p) : tasks[t].st = "done"
            /\ pubs[p].val = pubs[p].n

\* C11 witness: a publish returned 2 after invoking the two subscriptions of
\* its event while another event had a subscription too.
C11_Witness ==
    /\ PublishEnded /\ ret.status = "int" /\ ret.val = 2
    /\ Undisturbed
    /\ Len(frame.invoked) = 2
    /\ \E s \in active : s[2] # frame.event

\* C12: in every state of either bus each event name in the registry has at
\* least one subscription: the names in the EventBus registry are exactly
\* the events of the subscriptions not yet removed, none after a clear, and
\* no inner dict of the AsyncEventBus registry is empty.
C12_NoEmptyEntries ==
    /\ DOMAIN bus.subs = {s[2] : s \in active}
    /\ \A e \in DOMAIN bus.subs : DictLen(bus.heap[bus.subs[e]]) >= 1
    /\ ret.op = "clear" => DOMAIN bus.subs = {}
    /\ \A e \in DOMAIN abus.subs : DictLen(abus.heap[abus.subs[e]]) >= 1

\* C12 witness: unsubscribe returned True for the last subscription there
\* was and the registry has no entry left.
C12_Witness ==
    /\ ret.op = "unsubscribe" /\ ret.status = "True"
    /\ issued # <<>>
    /\ DOMAIN bus.subs = {}

\* The event names under which the registry b holds the id.
EventsOf(b, id) == {e \in DOMAIN b.subs : DictHas(b.heap[b.subs[e]], id)}

\* C13: the ids subscribe has returned are all different, also from the ids
\* of subscriptions removed since, on either bus; the id a subscribe call
\* returns is the one it registered; and no id is registered under more
\* than one event name.
C13_IdsUnique ==
    /\ NoRepeats(issued)
    /\ NoRepeats(aissued)
    /\ (ret.op = "subscribe" /\ ret.status = "int") =>
          /\ ret.val = issued[Len(issued)]
          /\ \E e \in Events : <<ret.val, e>> \in active
    /\ \A s \in active : s[1] \in Range(issued)
    /\ \A id \in 1..MaxIds : Cardinality(EventsOf(bus, id)) <= 1
    /\ \A id \in 1..AMaxIds :
          /\ Cardinality(EventsOf(abus, id)) <= 1
          /\ EventsOf(abus, id) # {} => id \in Range(aissued)

\* C13 witness: subscribe returned a third id when the subscriptions of the
\* two ids returned before it had been removed.
C13_Witness ==
    /\ ret.op = "subscribe" /\ ret.status = "int"
    /\ Len(issued) = 3
    /\ Cardinality(active) = 1

\* ------------------------------------------ claims, registry of EventBus
\* The handlers stored under an event, in the order of the inner dict.
HandlersOf(b, event) ==
    IF event \notin DOMAIN b.subs THEN <<>>
    ELSE LET c == Compact(b.heap[b.subs[event]].entries)
         IN  [i \in 1..Len(c) |-> c[i].h]

\* C14: subscribe(e, h) with a non-empty name and a callable handler, also
\* one the event already has, adds one subscription: count_subscribers(e)
\* and count_subscribers() grow by 1, the count of every other event stays,
\* the subscriptions there were all remain, and the id returned is registered
\* under e and was registered nowhere before.
C14_SubscribeAddsOne ==
    [][\A e \in Events, h \in Handlers :
          Subscribe(e, h) =>
            /\ EventBus_count(bus', e) = EventBus_count(bus, e) + 1
            /\ EventBus_count_all(bus') = EventBus_count_all(bus) + 1
            /\ \A o \in Events \ {e} : EventBus_count(bus', o) = EventBus_count(bus, o)
            /\ \A o \in Events, id \in 1..MaxIds :
                  o \in EventsOf(bus, id) => o \in EventsOf(bus', id)
            /\ ret'.status = "int"
            /\ EventsOf(bus, ret'.val) = {}
            /\ EventsOf(bus', ret'.val) = {e}
            /\ HandlersOf(bus', e) = Append(HandlersOf(bus, e), h)]_vars

\* C14 witness: subscribe returned and its event has the same handler under
\* two subscriptions.
C14_Witness ==
    /\ ret.op = "subscribe" /\ ret.status = "int"
    /\ \E e \in Events :
          /\ ret.val \in Range(SubscribedTo(bus, e))
          /\ \E i, j \in 1..Len(HandlersOf(bus, e)) :
                i < j /\ HandlersOf(bus, e)[i] = HandlersOf(bus, e)[j]

\* C15: unsubscribe(s) returns True exactly when s is registered, and then s
\* is registered no more; for an id that is not registered (never issued, or
\* removed by unsubscribe or clear) it raises nothing, returns False and
\* leaves the registry as it was.  An id that was issued and removed is
\* never registered again, so every later unsubscribe(s) returns False.
C15_UnsubscribeOnce ==
    [][/\ \A id \in 0..MaxIds :
            (ret'.op = "unsubscribe" /\ frame'.pc = frame.pc /\ Unsubscribe(id)) =>
              /\ ret'.status = IF EventsOf(bus, id) # {} THEN "True" ELSE "False"
              /\ EventsOf(bus', id) = {}
              /\ EventsOf(bus, id) = {} => (bus' = bus /\ active' = active)
       /\ \A id \in 1..MaxIds :
            (bus' # bus /\ EventsOf(bus, id) = {} /\ EventsOf(bus', id) # {}) =>
              id \notin Range(issued)]_vars

\* C15 witness: unsubscribe returned False when every id subscribe had
\* returned was removed already.
C15_Witness ==
    /\ ret.op = "unsubscribe" /\ ret.status = "False"
    /\ Len(issued) >= 2
    /\ active = {}
    /\ DOMAIN bus.subs = {}

\* The ids stored under an event, in the order of the inner dict.
KeysOf(b, event) ==
    IF event \notin DOMAIN b.subs THEN <<>> ELSE DictKeys(b.heap[b.subs[event]])

\* Sequence q without the value x.
Except(q, x) == SelectSeq(q, LAMBDA y : y # x)

\* C16: an unsubscribe(s) that returns True takes exactly s out: the total
\* count drops by 1 and, under every event, the other ids and their handlers
\* stay in the order they had.  A publish that begins afterwards takes the
\* subscriptions that remain under its event, and (its handlers leaving them
\* alone) returns after invoking each of them once, in that order, and none
\* that was removed.
C16_UnsubscribeRemovesOne ==
    /\ [][\A id \in 1..MaxIds :
            (ret'.op = "unsubscribe" /\ frame'.pc = frame.pc
               /\ EventsOf(bus, id) # {} /\ Unsubscribe(id)) =>
              /\ ret'.status = "True"
              /\ EventBus_count_all(bus') = EventBus_count_all(bus) - 1
              /\ \A e \in Events :
                    /\ KeysOf(bus', e) = Except(KeysOf(bus, e), id)
                    /\ \A i \in 1..Len(KeysOf(bus', e)) :
                          \E j \in 1..Len(KeysOf(bus, e)) :
                             /\ KeysOf(bus, e)[j] = KeysOf(bus', e)[i]
                             /\ HandlersOf(bus, e)[j] = HandlersOf(bus', e)[i]]_vars
    /\ [][\A e \in Events :
            (frame'.pc = "dispatch" /\ frame.pc = "idle" /\ PublishStart(e)) =>
              /\ frame'.snap = KeysOf(bus, e)
              /\ Range(frame'.snap) = {s[1] : s \in {a \in active : a[2] = e}}]_vars
    /\ []((PublishEnded /\ ret.status = "int" /\ Undisturbed) =>
              (frame.invoked = frame.snap /\ NoRepeats(frame.invoked)))

\* C16 witness: of the two subscriptions of an event one was removed, and a
\* publish of the event returned 1 after invoking the other.
C16_Witness ==
    /\ PublishEnded /\ ret.status = "int" /\ ret.val = 1
    /\ Len(issued) = 2 /\ Cardinality(active) = 1
    /\ Len(frame.invoked) = 1 /\ <<frame.invoked[1], frame.event>> \in active
    /\ frame.event \in DOMAIN bus.subs
    /\ Hole \in Range(bus.heap[bus.subs[frame.event]].entries)

\* The program's clear() has just returned.
Cleared == frame.pc = "idle" /\ ret.op = "clear"

\* C17: after clear(), whatever the registry held, count_subscribers() and
\* every count_subscribers(e) are 0, unsubscribe of every id issued so far
\* returns False and changes nothing, and a further clear() changes nothing;
\* a publish the program makes next finds no handler, invokes none and
\* returns 0.
C17_ClearEmpties ==
    /\ [][Clear =>
            /\ ret'.status = "None"
            /\ active' = {}
            /\ EventBus_count_all(bus') = 0
            /\ \A e \in Events : EventBus_count(bus', e) = 0
            /\ \A id \in Range(issued) :
                  EventBus_unsubscribe(bus', id) = [bus |-> bus', val |-> FALSE]
            /\ EventBus_clear(bus') = bus']_vars
    /\ [][(Cleared /\ Clear) => UNCHANGED vars]_vars
    /\ [][\A e \in Events :
            (Cleared /\ PublishStart(e)) =>
              /\ frame'.handler_count = 0
              /\ frame'.snap = <<>>
              /\ dictiter_next(Deref(bus', frame'.handlers), frame').kind
                    = "StopIteration"]_vars
    /\ [][(frame.pc = "dispatch" /\ frame.snap = <<>> /\ PublishReturn) =>
            (ret'.status = "int" /\ ret'.val = 0 /\ frame'.invoked = <<>>)]_vars

\* C17 witness: clear() was called while the event being published still had
\* all its subscriptions, and the registry is empty.
C17_Witness ==
    /\ ret.op = "clear" /\ frame.cleared
    /\ Len(frame.snap) >= 2 /\ frame.removed = {}
    /\ issued # <<>> /\ active = {}
    /\ EventBus_count_all(bus) = 0

\* ------------------------------------------ claims, either bus (continued)
\* C18: publish of a name that has no subscription (never subscribed, or all
\* removed) finds no handler and leaves the registry as it is; the EventBus
\* then ends its loop at once and returns 0 with no handler invoked and no
\* error, and the AsyncEventBus returns 0 in the same step, creating no
\* task and queueing nothing.
C18_PublishNoSubscribers ==
    /\ [][\A e \in Events :
            (frame.pc = "idle" /\ frame'.pc = "dispatch" /\ EventBus_count(bus, e) = 0
               /\ PublishStart(e)) =>
              /\ frame'.handler_count = 0
              /\ frame'.snap = <<>>
              /\ ret'.status = "running"
              /\ UNCHANGED <<bus, active>>]_vars
    /\ []((frame.pc = "dispatch" /\ frame.snap = <<>>) => ENABLED PublishReturn)
    /\ [][(frame.pc = "dispatch" /\ frame.snap = <<>>) =>
            /\ ret' = [op |-> "publish", status |-> "int", val |-> 0]
            /\ frame'.pc = "idle" /\ frame'.invoked = <<>>
            /\ UNCHANGED <<bus, active>>]_vars
    /\ [][\A p \in Publishers, e \in Events :
            (pubs[p].st = "idle" /\ AsyncEventBus_count(abus, e) = 0
               /\ PublishCall(p, e)) =>
              /\ pubs'[p].st = "returned" /\ pubs'[p].val = 0
              /\ pubs'[p].n = 0
              /\ UNCHANGED <<abus, tasks, ready>>]_vars

\* C18 witness: a publish returned 0 for an event whose subscription had
\* been removed while another event kept one.
C18_Witness ==
    /\ PublishEnded /\ ret.status = "int" /\ ret.val = 0
    /\ frame.invoked = <<>>
    /\ Len(issued) = 2 /\ Cardinality(active) = 1
    /\ frame.event \notin DOMAIN bus.subs
    /\ \A s \in active : s[2] # frame.event

\* ------------------------------- claims, registry of EventBus (continued)
\* The step is a call that raised AssertionError and did nothing else.
FailedValidation ==
    /\ ret'.status = "AssertionError"
    /\ frame' = Idle
    /\ UNCHANGED <<bus, nextId, issued, active>>

\* C19: subscribe with an empty event name or a handler that is not
\* callable, publish with an empty event name and unsubscribe with an empty
\* id each raise AssertionError at the call, start no publish, invoke no
\* handler and leave the registry as it was; so the registry never holds
\* the empty name or a handler that is not callable.
C19_ValidationErrors ==
    /\ [][frame.pc = "idle" =>
            /\ \A e \in Events \cup {""}, h \in Handlers \cup {NotCallable} :
                  ((e = "" \/ h = NotCallable) /\ Subscribe(e, h)) => FailedValidation
            /\ PublishStart("") => FailedValidation
            /\ Unsubscribe(-1) => FailedValidation]_vars
    /\ []("" \notin DOMAIN bus.subs)
    /\ [](\A e \in DOMAIN bus.subs : NotCallable \notin Range(HandlersOf(bus, e)))

\* C19 witness: a publish with the empty name raised AssertionError on a bus
\* that has subscriptions.
C19_Witness ==
    /\ ret = [op |-> "publish", status |-> "AssertionError", val |-> 0]
    /\ frame = Idle
    /\ Cardinality(active) >= 2

\* The subscriptions not yet removed that were made under the event.
ActiveUnder(event) == {s \in active : s[2] = event}

\* C20: in every state count_subscribers(e) is the number of subscriptions
\* not yet removed that were made under exactly e, 0 for a name never used,
\* and count_subscribers() is the number of all of them, the sum of
\* count_subscribers(e) over the event names; a call returns that number
\* and changes nothing.
C20_Counts ==
    /\ [](\A e \in Events \cup {"unknown"} :
              EventBus_count(bus, e) = Cardinality(ActiveUnder(e)))
    /\ [](EventBus_count(bus, "unknown") = 0)
    /\ [](EventBus_count_all(bus) = Cardinality(active))
    /\ [](EventBus_count_all(bus) =
              SumOver([e \in Events |-> EventBus_count(bus, e)], Events))
    /\ [][\A e \in Events \cup {None} :
            CountSubscribers(e) =>
              /\ ret'.status = "int"
              /\ ret'.val = IF e = None THEN Cardinality(active)
                            ELSE Cardinality(ActiveUnder(e))
              /\ UNCHANGED <<bus, nextId, issued, active>>]_vars

\* C20 witness: count_subscribers() returned 3 for a registry of two events.
C20_Witness ==
    /\ ret = [op |-> "count_subscribers", status |-> "int", val |-> 3]
    /\ DOMAIN bus.subs = Events

\* ------------------------------------- claims, EventBus.publish (continued)
\* C26: when a handler calls clear() during a publish whose handlers make no
\* other change to the subscriptions of its event, the publish goes on over
\* the handlers subscribed at its start, in order, never ends in a
\* RuntimeError, and when it returns it has invoked them all and returns
\* their number; the event then has no subscription, so the next publish of
\* it finds no handler.
C26_ClearDuringPublish ==
    (frame.cleared /\ frame.added = {} /\ frame.removed = {}) =>
        /\ frame.invoked = SubSeq(frame.snap, 1, Len(frame.invoked))
        /\ frame.pc = "dispatch" =>
              dictiter_next(Deref(bus, frame.handlers), frame).kind
                 = IF Len(frame.invoked) < Len(frame.snap) THEN "value"
                   ELSE "StopIteration"
        /\ PublishEnded => ret.status \in {"int", "HandlerError"}
        /\ (PublishEnded /\ ret.status = "int") =>
              /\ frame.invoked = frame.snap
              /\ frame.finished = frame.snap
              /\ ret.val = Len(frame.snap)
        /\ EventBus_count(bus, frame.event) = 0
        /\ HandlerCount(bus, Deref(bus, subscribers_get(bus, frame.event))) = 0

\* C26 witness: the first of two handlers called clear(), the second was
\* invoked all the same and the publish returned 2 with the registry empty.
C26_Witness ==
    /\ PublishEnded /\ ret.status = "int" /\ ret.val = 2
    /\ frame.cleared /\ frame.added = {} /\ frame.removed = {}
    /\ Len(frame.finished) = 2
    /\ bus.subs = <<>>
    /\ active = {}

\* ------------------------------ claims, AsyncEventBus.publish (continued)
\* C27: AsyncEventBus.publish of an event with no subscriber returns 0 in the
\* step of the call: it creates no task, puts nothing on the loop's queue
\* and the registry is the same before and after, so nothing runs between
\* the call and its return; no publish is ever suspended over zero handlers.
C27_NoSubscribersNoSuspension ==
    /\ [][\A p \in Publishers, e \in Events :
            (pubs[p].st = "idle" /\ AsyncEventBus_count(abus, e) = 0
               /\ PublishCall(p, e)) =>
              /\ pubs'[p].st = "returned"
              /\ pubs'[p].val = 0
              /\ UNCHANGED <<abus, anextId, aissued, tasks, ready>>]_vars
    /\ [](\A p \in Publishers :
              /\ pubs[p].st = "waiting" => pubs[p].n > 0
              /\ pubs[p].n = 0 =>
                    \A i \in 1..Len(ready) :
                       ready[i].k = "wakeup" => ready[i].p # p)

\* C27 witness: a publish returned 0 at once on a bus that has issued ids and
\* whose loop has nothing queued.
C27_Witness ==
    \E p \in Publishers :
        /\ pubs[p].st = "returned" /\ pubs[p].n = 0 /\ pubs[p].val = 0
        /\ aissued # <<>>
        /\ tasks = <<>> /\ ready = <<>>

\* ------------------------------------------ claims, either bus (continued)
\* The registry b maps the same names to the same ids and handlers, in the
\* same order, as the registry c.
SameRegistry(b, c) ==
    /\ DOMAIN b.subs = DOMAIN c.subs
    /\ \A e \in DOMAIN b.subs :
          KeysOf(b, e) = KeysOf(c, e) /\ HandlersOf(b, e) = HandlersOf(c, e)

\* C28: the step in which a handler's exception leaves EventBus.publish, and
\* the steps in which gather passes a task's exception on to
\* AsyncEventBus.publish, leave the registry as it is: same names, ids,
\* handlers, order and counts.  So after a failed publish whose handlers
\* made no change to the event's subscriptions, the event holds the
\* subscriptions it had at the start, the failing one among them, and the
\* next publish of the event takes them all again.
C28_FailureKeepsRegistry ==
    /\ [][(frame.pc = "handler" /\ HandlerRaise) =>
            /\ ret'.status = "HandlerError"
            /\ SameRegistry(bus', bus)
            /\ EventBus_count_all(bus') = EventBus_count_all(bus)
            /\ UNCHANGED <<active, issued, nextId>>]_vars
    /\ []((PublishEnded /\ ret.status = "HandlerError" /\ Undisturbed) =>
              /\ KeysOf(bus, frame.event) = frame.snap
              /\ frame.failed \in Range(KeysOf(bus, frame.event))
              /\ EventBus_count(bus, frame.event) = Len(frame.snap))
    /\ [][\A e \in Events :
            (PublishEnded /\ ret.status = "HandlerError" /\ Undisturbed
               /\ e = frame.event /\ PublishStart(e)) =>
              /\ frame'.snap = frame.snap
              /\ frame'.handler_count = Len(frame.snap)
              /\ frame.failed \in Range(frame'.snap)]_vars
    /\ [][(ready # <<>> /\ (RunDoneCallback \/ RunWakeup)) =>
            UNCHANGED <<abus, anextId, aissued>>]_vars
    /\ [][\A p \in Publishers :
            (pubs[p].st = "waiting" /\ pubs'[p].st = "raised"
               /\ ~pubs'[p].changed) =>
              /\ KeysOf(abus', pubs[p].event) = pubs[p].snap
              /\ \E t \in Cohort(p) :
                    /\ tasks'[t].st = "failed"
                    /\ tasks'[t].id \in Range(KeysOf(abus', pubs[p].event))]_vars

\* C28 witness: the first of an event's two handlers raised, the publish
\* failed, and the event still holds both subscriptions.
C28_Witness ==
    /\ PublishEnded /\ ret.status = "HandlerError" /\ Undisturbed
    /\ Len(frame.snap) = 2 /\ frame.failed = frame.snap[1]
    /\ KeysOf(bus, frame.event) = frame.snap
    /\ EventBus_count_all(bus) = 2

\* ------------------------------------------- claims, payload of publish
\* The marks of q made by handlers invoked before the k-th.
MarksBefore(q, k) == SelectSeq(q, LAMBDA m : m < k)

\* C21: every handler invoked by a publish received the event name of the
\* call and the publisher's own payload reference, None when none was
\* given; what it found in the payload is what the handlers invoked before
\* it had put there, and the publisher's object holds the marks of all the
\* handlers that changed their payload, also after publish has returned.
C21_PayloadShared ==
    /\ \A k \in 1..Len(pcall.got) :
          /\ pcall.got[k].event = pcall.event
          /\ pcall.got[k].payload = pcall.payload
          /\ pcall.payload # 0 =>
                /\ pcall.got[k].seen = MarksBefore(objs[pcall.payload], k)
                /\ Range(pcall.got[k].seen) = {m \in pcall.mutated : m < k}
    /\ pcall.payload # 0 => Range(objs[pcall.payload]) = pcall.mutated
    /\ pcall.payload = 0 => pcall.mutated = {}
    /\ pcall.pc = "returned" => Len(pcall.got) = pcall.n /\ pcall.val = pcall.n

\* C21 witness: publish returned after the first of three handlers changed
\* the payload; the third found the change and so does the publisher.
C21_Witness ==
    /\ pcall.pc = "returned" /\ pcall.n = 3
    /\ pcall.mutated = {1}
    /\ pcall.got[3].seen = <<1>>
    /\ objs[pcall.payload] = <<1>>

\* ------------------------------------------- claims, SnowflakeConnection
\* A thread is inside the body of a method: it holds the lock.
InBody(t) == cthr[t].pc \notin {"idle", "acquire"}

\* C23: a call of close_all_sessions (or of __exit__) that has started
\* leads to its return, with the pool empty.
C23_CloseAllTerminates ==
    \A t \in Threads :
        (cthr[t].op = "close_all_sessions" /\ cthr[t].pc # "idle")
            ~> (/\ cthr[t].op = "close_all_sessions"
                /\ cthr[t].pc = "idle"
                /\ cthr[t].status = "None"
                /\ pool = <<>>)

\* C30: of the sessions created under one name at most one has not been
\* removed, and it is the pooled one (or the one its creator is about to
\* store); the bodies of get_session and close_session exclude each other;
\* a get_session that finds a pooled session passing the probe returns that
\* session and creates nothing; a session is created only while no session
\* is pooled under the name, a failed probe having removed the old one.
C30_OneSessionPerName ==
    /\ [](/\ \A s1, s2 \in DOMAIN sess :
                (sess[s1].name = sess[s2].name /\ ~sess[s1].removed
                    /\ ~sess[s2].removed) => s1 = s2
          /\ \A s \in DOMAIN sess :
                ~sess[s].removed <=>
                    \/ PoolHas(pool, sess[s].name) /\ PoolGet(pool, sess[s].name) = s
                    \/ \E t \in Threads : cthr[t].pc = "g_store" /\ cthr[t].session = s
          /\ \A t1, t2 \in Threads : (InBody(t1) /\ InBody(t2)) => t1 = t2
          /\ \A t \in Threads :
                /\ InBody(t) => lock = t
                /\ cthr[t].pc \in {"g_create", "g_store"} =>
                      ~PoolHas(pool, cthr[t].name)
                /\ cthr[t].pc = "g_probe" =>
                      /\ PoolHas(pool, cthr[t].name)
                      /\ cthr[t].session = PoolGet(pool, cthr[t].name))
    /\ [][\A t \in Threads :
            (cthr[t].pc = "g_probe" /\ GProbe(t)) =>
                IF ProbeOk(sess[cthr[t].session])
                THEN /\ cthr'[t].pc = "idle" /\ cthr'[t].status = "Session"
                     /\ cthr'[t].val = PoolGet(pool, cthr[t].name)
                     /\ UNCHANGED <<pool, sess>>
                ELSE /\ cthr'[t].pc = "g_create"
                     /\ ~PoolHas(pool', cthr[t].name)
                     /\ sess'[cthr[t].session].removed
                     /\ Len(sess') = Len(sess)]_vars

\* C30 witness: the first session failed its probe and was replaced; both
\* threads then got the replacement, the only session in the pool.
C30_Witness ==
    /\ Len(sess) = 2
    /\ sess[1].removed /\ ~sess[1].valid /\ ~sess[1].closed
    /\ pool = <<[name |-> "default", s |-> 2]>>
    /\ \A t \in Threads :
          /\ cthr[t].op = "get_session" /\ cthr[t].pc = "idle"
          /\ cthr[t].status = "Session" /\ cthr[t].val = 2

\* ------------------------------------------------ claims, ConfigManager
\* The key paths of a dict: the lists of segments that lead to a value.
RECURSIVE PathsOf(_)
PathsOf(d) ==
    UNION {{<<k>>} \cup (IF d[k].t = "dict"
                         THEN {<<k>> \o p : p \in PathsOf(d[k].d)}
                         ELSE {}) : k \in DOMAIN d}

\* The value a dict holds under a key path of it.
At(d, p) == Walk(DictValue(d), p).value

\* q is a proper prefix of p.
ProperPrefix(q, p) == Len(q) < Len(p) /\ SubSeq(p, 1, Len(q)) = q

\* What update(other) does with the key paths of other: a value that is
\* not a dict replaces what was there, a dict is merged into a dict of the
\* original key by key and replaces anything else.
OtherPathsHold(before, other, after) ==
    \A p \in PathsOf(other) :
        /\ p \in PathsOf(after)
        /\ IF /\ At(other, p).t = "dict"
              /\ p \in PathsOf(before)
              /\ At(before, p).t = "dict"
           THEN /\ At(after, p).t = "dict"
                /\ DOMAIN At(after, p).d
                      = DOMAIN At(before, p).d \cup DOMAIN At(other, p).d
           ELSE At(after, p) = At(other, p)

\* C24: after update(other) the key paths of other hold other's values,
\* nested dicts present on both sides being merged key by key, and a key
\* path present only in the original holds its old value, unless other
\* holds a value that is not a dict at a prefix of the path: that value
\* replaced the whole dict the path was in.
C24_UpdateMerges ==
    cres.op = "update" =>
        /\ OtherPathsHold(cres.before, cres.arg.d, cfg)
        /\ \A p \in PathsOf(cres.before) \ PathsOf(cres.arg.d) :
              (\A q \in PathsOf(cres.arg.d) :
                    ProperPrefix(q, p) => At(cres.arg.d, q).t = "dict")
                 => /\ p \in PathsOf(cfg)
                    /\ At(cfg, p) = At(cres.before, p)
        /\ PathsOf(cfg) \subseteq PathsOf(cres.before) \cup PathsOf(cres.arg.d)

\* C24 as stated: every key path present only in the original is preserved.
C24_UpdatePreservesOriginal ==
    cres.op = "update" =>
        /\ OtherPathsHold(cres.before, cres.arg.d, cfg)
        /\ \A p \in PathsOf(cres.before) \ PathsOf(cres.arg.d) :
              /\ p \in PathsOf(cfg)
              /\ At(cfg, p) = At(cres.before, p)

\* C24 witness: a nested dict of both sides was merged: one key kept, one
\* overridden, one added, and a new top-level key added.
C24_Witness ==
    /\ cres.op = "update"
    /\ cres.before = (<<"a">> :> DictValue(<<"a">> :> NoneValue))
    /\ cres.arg.d = (<<"a">> :> DictValue(<<"b">> :> IntValue(1)))
                      @@ (<<"b">> :> IntValue(1))
    /\ cfg = (<<"a">> :> DictValue((<<"a">> :> NoneValue) @@ (<<"b">> :> IntValue(1))))
                @@ (<<"b">> :> IntValue(1))


\* Key paths p and q lie apart: neither is the other nor a prefix of it.
Apart(p, q) == p # q /\ ~ProperPrefix(p, q) /\ ~ProperPrefix(q, p)

\* C25: has(key) is true exactly when the key path exists; after
\* set(key, value), for any value, has(key) is true, get(key) returns the
\* value, and the key paths lying apart from key hold what they held.
C25_HasIffExists ==
    /\ cres.op = "has" =>
          (cres.flag <=> Walk(DictValue(cfg), split(cres.key)).status = "ok")
    /\ cres.op = "set" =>
          /\ cres.status = "ok"
          /\ ConfigManager_has(cfg, cres.key)
          /\ ConfigManager_get(cfg, cres.key, NoneValue) = cres.arg
          /\ \A key \in ConfigKeys :
                Apart(split(key), split(cres.key)) =>
                    Walk(DictValue(cfg), split(key))
                        = Walk(DictValue(cres.before), split(key))


\* ---------------------------------------- claims, the two registries
\* The registry of the AsyncEventBus is that of the EventBus with every id
\* renamed: the same event names, under each the same subscriptions in the
\* same order with the same handlers.
SameUpToIds(bs, ba) ==
    /\ DOMAIN bs.subs = DOMAIN ba.subs
    /\ \A e \in DOMAIN bs.subs :
          /\ KeysOf(ba, e) = [i \in 1..Len(KeysOf(bs, e)) |-> Rename(KeysOf(bs, e)[i])]
          /\ HandlersOf(ba, e) = HandlersOf(bs, e)

\* C22: after any sequence of subscribe, unsubscribe, clear and
\* count_subscribers calls made on both buses, the last call returned the
\* same on both (the same boolean, count or error, and for subscribe the id
\* of the same subscription) and the two registries are the same up to the
\* naming of the ids.
C22_SameRegistry ==
    /\ SameUpToIds(pair.s, pair.a)
    /\ pres.a.op = pres.s.op
    /\ pres.a.status = pres.s.status
    /\ pres.a.val = IF pres.s.status = "id" THEN Rename(pres.s.val) ELSE pres.s.val
    /\ EventBus_count_all(pair.s) = AsyncEventBus_count_all(pair.a)

\* C22 witness: three subscriptions were made on both buses, the first
\* was removed, and a second unsubscribe of it returned False on both;
\* both buses hold the other two under their own ids.
C22_Witness ==
    /\ pair.n = 3
    /\ pres.s.op = "unsubscribe" /\ pres.s.status = "False" /\ pres.a.status = "False"
    /\ KeysOf(pair.s, "e1") = <<2, 3>>
    /\ KeysOf(pair.a, "e1") = <<Rename(2), Rename(3)>>
    /\ HandlersOf(pair.a, "e1") = <<"hB", "hA">>


\* --------------------------- claims, two publishes of the AsyncEventBus
\* C29: of two publish calls of one event on one bus, each has its own
\* handler tasks, one for each subscription the event had when that call
\* started and no other; a task that has finished is never run again and
\* none is started twice; the start, the progress and the end of one call
\* change nothing of the cohort of the other; and a call that returns does
\* so when all its own tasks are done, with the size of its own cohort.
C29_TwoPublishes ==
    /\ [](/\ \A p \in TwoPublishers :
                pubs[p].st # "idle" =>
                    /\ CohortIds(p) = pubs[p].snap
                    /\ NoRepeats(CohortIds(p))
                    /\ pubs[p].n = pubs[p].handler_count
                    /\ \A t \in Cohort(p) : tasks[t].pub = p
                    /\ pubs[p].st = "returned" =>
                          /\ \A t \in Cohort(p) : tasks[t].st = "done"
                          /\ pubs[p].val = Len(pubs[p].snap)
          /\ \A t \in 1..Len(tasks) :
                \E p \in TwoPublishers : pubs[p].st # "idle" /\ t \in Cohort(p)
          /\ \A p, q \in TwoPublishers :
                (p # q /\ pubs[p].st # "idle" /\ pubs[q].st # "idle")
                    => Cohort(p) \cap Cohort(q) = {})
    /\ [][/\ tasks' # tasks =>
               \A t \in 1..Len(tasks) :
                   /\ Finished(t) => tasks'[t] = tasks[t]
                   /\ tasks[t].st # "created" => tasks'[t].st # "created"
                   /\ tasks'[t].id = tasks[t].id /\ tasks'[t].pub = tasks[t].pub
          /\ pubs' # pubs =>
               \A p \in TwoPublishers :
                   pubs[p].st # "idle" =>
                       /\ pubs'[p].snap = pubs[p].snap
                       /\ pubs'[p].first = pubs[p].first
                       /\ pubs'[p].n = pubs[p].n
                       /\ pubs'[p].handler_count = pubs[p].handler_count
                       /\ pubs[p].st \in {"returned", "raised"} =>
                             /\ pubs'[p].st = pubs[p].st
                             /\ pubs'[p].val = pubs[p].val]_vars

\* C29 witness: the first publish of the event took one handler and is
\* still suspended; a second one, called after another handler had
\* subscribed, has returned 2, both its tasks done.
C29_Witness ==
    /\ pubs["p1"].st = "waiting" /\ pubs["p1"].n = 1 /\ pubs["p1"].first = 1
    /\ pubs["p2"].st = "returned" /\ pubs["p2"].val = 2 /\ pubs["p2"].first = 2
    /\ pubs["p2"].event = pubs["p1"].event
    /\ tasks[1].st = "sleeping"

====
